---- MODULE Spec2Model ----
(***************************************************************************)
(* A model of the hoa package of whitemech/hoa-utils: the boolean-formula  *)
(* algebra with its simplifying constructors (hoa/ast), the reduction of   *)
(* a parse tree to an automaton (hoa/parsers.py) and the printer           *)
(* (hoa/dumpers.py, hoa/printers.py).                                      *)
(*                                                                         *)
(* Python values are modelled as records carrying the name of their class  *)
(* in the field "tag" and the dataclass fields under their own names.      *)
(* A Python call is modelled by its outcome: a record with the name of the *)
(* exception it raised ("ok" when it returned) and the value it returned.  *)
(***************************************************************************)
EXTENDS Integers, Sequences, FiniteSets, TLC

\* ------------------------------------------------------------------ bounds
\* longest operand list handed to a constructor in one call
MaxArgs == 3
\* largest formula (number of nodes) a register may hold
MaxSize == 3
\* proposition indices used as label atoms are 0 .. NbProps-1
NbProps == 2

\* ------------------------------------------------------- generic helpers
Range(s) == {s[i] : i \in 1..Len(s)}

RECURSIVE Reverse(_)
Reverse(s) == IF s = <<>> THEN <<>> ELSE Append(Reverse(Tail(s)), Head(s))

Front(s) == SubSeq(s, 1, Len(s) - 1)

Last(s) == s[Len(s)]

SeqsUpTo(S, n) == UNION {[1..k -> S] : k \in 0..n}

\* --------------------------------------------------------- python values
None == [tag |-> "None"]

Return(v) == [exc |-> "ok", val |-> v]

Raise(e) == [exc |-> e, val |-> None]

\* a Python tuple handed around as a value (len() is defined on it)
PyTuple(s) == [tag |-> "tuple", items |-> s]

\* ------------------------------------------------ hoa/ast: formula values
TrueFormula == [tag |-> "TrueFormula"]

FalseFormula == [tag |-> "FalseFormula"]

\* the members of the enumeration AtomType; integers below zero so that a
\* dataclass field may hold either a member or a Python int (always >= 0)
FINITE == -1

INFINITE == -2

AtomType == {FINITE, INFINITE}

LabelAtom(p) == [tag |-> "LabelAtom", proposition |-> p]

LabelAlias(a, e) == [tag |-> "LabelAlias", alias |-> a, expression |-> e]

AcceptanceAtom(t, s, n) ==
  [tag |-> "AcceptanceAtom", atom_type |-> t, acceptance_set |-> s, negated |-> n]

Fin(k) == AcceptanceAtom(FINITE, k, FALSE)

Inf(k) == AcceptanceAtom(INFINITE, k, FALSE)

BinaryOp(cls, operands) == [tag |-> cls, operands |-> operands]

UnaryOp(cls, argument) == [tag |-> cls, argument |-> argument]

\* the four classes whose metaclass is MonotoneOp
MonotoneClasses == {"_And", "_Or", "_PositiveAnd", "_PositiveOr"}

LabelClasses == {"_And", "_Or"}

PositiveClasses == {"_PositiveAnd", "_PositiveOr"}

Literals == {TrueFormula, FalseFormula}

\* the class attribute _absorbing
absorbing(cls) ==
  IF cls \in {"_And", "_PositiveAnd"} THEN FalseFormula ELSE TrueFormula

RECURSIVE Size(_)
Size(f) ==
  IF f.tag \in MonotoneClasses
    THEN LET RECURSIVE Sum(_)
             Sum(s) == IF s = <<>> THEN 0 ELSE Size(Head(s)) + Sum(Tail(s))
         IN 1 + Sum(f.operands)
    ELSE IF f.tag = "_Not" THEN 1 + Size(f.argument)
    ELSE IF f.tag = "LabelAlias" THEN 1 + Size(f.expression)
    ELSE 1

\* ----------------------------------------- python operators on formulas
\* the class boolean_op_wrapper stored in cls.__and__, or None
and_cls(tag) ==
  CASE tag \in {"_And", "_Or", "_Not", "LabelAtom", "LabelAlias"} -> "_And"
    [] tag \in {"_PositiveAnd", "_PositiveOr", "AcceptanceAtom"} -> "_PositiveAnd"
    [] OTHER -> "None"

\* the class boolean_op_wrapper stored in cls.__or__, or None
or_cls(tag) ==
  CASE tag \in {"_And", "_Or", "_Not", "LabelAtom", "LabelAlias"} -> "_Or"
    [] tag \in {"_PositiveAnd", "_PositiveOr", "AcceptanceAtom"} -> "_PositiveOr"
    [] OTHER -> "None"

\* ~f: AcceptanceAtom.__invert__ toggles the flag, the classes wrapped by
\* boolean_op_wrapper build a _Not node, TrueFormula and FalseFormula define
\* __neg__ only, so that ~ on them is a TypeError
invert(f) ==
  CASE f.tag \in {"TrueFormula", "FalseFormula"} -> Raise("TypeError")
    [] f.tag = "AcceptanceAtom" ->
         Return(AcceptanceAtom(f.atom_type, f.acceptance_set, ~f.negated))
    [] OTHER -> Return(UnaryOp("_Not", f))

\* ------------------------------------------- the simplifying constructor
\* list(dict.fromkeys(operands)): the first occurrence of each operand
RECURSIVE fromkeys_from(_, _)
fromkeys_from(seen, s) ==
  IF s = <<>> THEN seen
  ELSE IF Head(s) \in Range(seen) THEN fromkeys_from(seen, Tail(s))
  ELSE fromkeys_from(Append(seen, Head(s)), Tail(s))

\* a deduplication that keeps the last occurrence of each operand
fromkeys_keeps_last(operands) == Reverse(fromkeys_from(<<>>, Reverse(operands)))

fromkeys(operands) == fromkeys_from(<<>>, operands)

\* the while loop of _simplify_monotone_op_operands: stack.pop() takes the
\* last element, stack.extend(reversed(...)) pushes the operands of a node
\* of the same class
RECURSIVE shift_up(_, _, _)
shift_up(cls, stack, new_operands) ==
  IF stack = <<>> THEN new_operands
  ELSE LET element == Last(stack)
           rest == Front(stack)
       IN IF element.tag # cls
            THEN shift_up(cls, rest, Append(new_operands, element))
            ELSE shift_up(cls, rest \o Reverse(element.operands), new_operands)

\* _simplify_monotone_op_operands after its first line, with n the outcome
\* of ~cls._absorbing, which is evaluated for an empty list only
simplify_operands(cls, operands, n) ==
  IF Len(operands) = 0
    THEN IF n.exc # "ok" THEN n ELSE Return(PyTuple(<<n.val>>))
  ELSE IF Len(operands) = 1 THEN Return(PyTuple(<<operands[1]>>))
  ELSE IF absorbing(cls) \in Range(operands) THEN Return(absorbing(cls))
  ELSE Return(PyTuple(shift_up(cls, Reverse(operands), <<>>)))

simplify_monotone_op_operands(cls, operands) ==
  simplify_operands(cls, fromkeys(operands), invert(absorbing(cls)))

\* MonotoneOp.__call__ after its first line, without the shortcut for a
\* single operand
init_subclass_always_wraps(cls, r) ==
  IF r.exc # "ok" THEN r
  ELSE IF r.val.tag # "tuple" THEN Raise("TypeError")
  ELSE Return(BinaryOp(cls, r.val.items))

\* MonotoneOp.__call__ after its first line, with r the outcome of
\* _simplify_monotone_op_operands: len() of a value that is no tuple is a
\* TypeError
init_subclass(cls, r) ==
  IF r.exc # "ok" THEN r
  ELSE IF r.val.tag # "tuple" THEN Raise("TypeError")
  ELSE IF Len(r.val.items) = 1 THEN Return(r.val.items[1])
  ELSE Return(BinaryOp(cls, r.val.items))

\* MonotoneOp.__call__
MonotoneOp_call(cls, args) ==
  init_subclass(cls, simplify_monotone_op_operands(cls, args))

\* self & other: type(self).__and__ if the class has one; no class defines
\* __rand__, so the operator is a TypeError otherwise
and_(self, other) ==
  IF and_cls(self.tag) = "None" THEN Raise("TypeError")
  ELSE MonotoneOp_call(and_cls(self.tag), <<self, other>>)

\* self | other
or_(self, other) ==
  IF or_cls(self.tag) = "None" THEN Raise("TypeError")
  ELSE MonotoneOp_call(or_cls(self.tag), <<self, other>>)

\* ------------------------------------------------- python str and int
\* a str is modelled as the sequence of its characters
Q == "\""

DigitChars == <<"0", "1", "2", "3", "4", "5", "6", "7", "8", "9">>

IsDigit(c) == \E d \in 1..10 : DigitChars[d] = c

DigitValue(c) == (CHOOSE d \in 1..10 : DigitChars[d] = c) - 1

LowerChars == {"a", "b", "c", "d", "e", "f", "g", "h", "i", "j", "k", "l", "m",
               "n", "o", "p", "q", "r", "s", "t", "u", "v", "w", "x", "y", "z"}

UpperChars == {"A", "B", "C", "D", "E", "F", "G", "H", "I", "J", "K", "L", "M",
               "N", "O", "P", "Q", "R", "S", "T", "U", "V", "W", "X", "Y", "Z"}

\* str(i) for an int i >= 0
RECURSIVE str_int(_)
str_int(i) ==
  IF i < 10 THEN <<DigitChars[i + 1]>>
  ELSE Append(str_int(i \div 10), DigitChars[(i % 10) + 1])

\* int(s): a ValueError unless s is a sequence of digits
RECURSIVE digits_value(_)
digits_value(s) ==
  IF s = <<>> THEN 0 ELSE 10 * digits_value(Front(s)) + DigitValue(Last(s))

int_str(s) ==
  IF s # <<>> /\ \A i \in 1..Len(s) : IsDigit(s[i])
    THEN Return(digits_value(s))
    ELSE Raise("ValueError")

\* sep.join(parts)
RECURSIVE join(_, _)
join(sep, parts) ==
  IF parts = <<>> THEN <<>>
  ELSE IF Len(parts) = 1 THEN parts[1]
  ELSE parts[1] \o sep \o join(sep, Tail(parts))

\* s.strip('"'): every leading and trailing quote is removed
RECURSIVE lstrip_quotes(_)
lstrip_quotes(s) ==
  IF s # <<>> /\ Head(s) = Q THEN lstrip_quotes(Tail(s)) ELSE s

strip_quotes(s) == Reverse(lstrip_quotes(Reverse(lstrip_quotes(s))))

\* ------------------------------------------------- hoa/types.py values
\* the values a header item or an acc-name parameter may hold
PyBool(b) == [py |-> "bool", b |-> b]

PyInt(i) == [py |-> "int", i |-> i]

identifier(s) == [py |-> "identifier", s |-> s]

string(s) == [py |-> "string", s |-> s]

\* str(value): bool prints as True / False, RegexConstrainedString as itself
str(v) ==
  CASE v.py = "bool" -> IF v.b THEN <<"T", "r", "u", "e">> ELSE <<"F", "a", "l", "s", "e">>
    [] v.py = "int" -> str_int(v.i)
    [] OTHER -> v.s

\* re.match(REGEX, s) matches a prefix of s
match_boolean(s) == s # <<>> /\ s[1] \in {"t", "f"}

match_integer(s) == s # <<>> /\ IsDigit(s[1])

match_identifier(s) == s # <<>> /\ s[1] \in (LowerChars \cup UpperChars \cup {"_"})

\* bool(s) of a str is True unless the str is empty
bool_str(s) == PyBool(s # <<>>)

\* acceptance_parameter.to_parameter_value
to_parameter_value(value) ==
  LET s == str(value)
  IN IF match_boolean(s) THEN Return(bool_str(s))
     ELSE IF match_integer(s)
       THEN LET n == int_str(s) IN IF n.exc = "ok" THEN Return(PyInt(n.val)) ELSE n
     ELSE IF match_identifier(s) THEN Return(identifier(s))
     ELSE Raise("ValueError")

\* acceptance_parameter.to_acceptance_parameter: the printed parameter
to_acceptance_parameter(v) ==
  IF v.py = "bool" THEN Return(IF v.b THEN <<"t">> ELSE <<"f">>)
  ELSE IF v.py = "int" THEN Return(str_int(v.i))
  ELSE IF match_boolean(v.s) \/ match_identifier(v.s) \/ match_integer(v.s)
    THEN Return(v.s)
  ELSE Raise("ValueError")

\* hoa_header_value.to_header_value
to_header_value(value) ==
  LET s == str(value)
  IN IF match_boolean(s) THEN Return(bool_str(s))
     ELSE IF match_integer(s)
       THEN LET n == int_str(s) IN IF n.exc = "ok" THEN Return(PyInt(n.val)) ELSE n
     ELSE IF match_identifier(s) THEN Return(identifier(s))
     ELSE Return(string(s))

\* hoa_header_value.to_hoa_header_value: the string pattern matches any str
to_hoa_header_value(v) ==
  IF v.py = "bool" THEN Return(IF v.b THEN <<"t">> ELSE <<"f">>)
  ELSE IF v.py = "int" THEN Return(str_int(v.i))
  ELSE Return(v.s)

\* Python ==: a bool is an int, and str subclasses compare by content
PyNorm(v) ==
  CASE v.py = "bool" -> [py |-> "int", i |-> IF v.b THEN 1 ELSE 0]
    [] v.py = "int" -> v
    [] OTHER -> [py |-> "str", s |-> v.s]

PySeqNorm(vs) == [i \in 1..Len(vs) |-> PyNorm(vs[i])]

\* map(f, values) where f may raise: the first exception, or the results
RECURSIVE map_outcomes(_)
map_outcomes(outs) ==
  IF outs = <<>> THEN Return(<<>>)
  ELSE IF Head(outs).exc # "ok" THEN Raise(Head(outs).exc)
  ELSE LET rest == map_outcomes(Tail(outs))
       IN IF rest.exc # "ok" THEN rest ELSE Return(<<Head(outs).val>> \o rest.val)

\* the token the grammar's lexer makes of a printed header value, after the
\* token callbacks of the transformer (BOOLEAN, INT, STRING, IDENTIFIER)
token_value(s) ==
  IF s = <<"t">> THEN PyBool(TRUE)
  ELSE IF s = <<"f">> THEN PyBool(FALSE)
  ELSE IF int_str(s).exc = "ok" THEN PyInt(int_str(s).val)
  ELSE IF s # <<>> /\ s[1] = Q THEN string(s)
  ELSE identifier(s)

\* the STRING tokens of a printed line: each runs from a quote to the next
RECURSIVE string_tokens(_)
string_tokens(chars) ==
  IF chars = <<>> THEN <<>>
  ELSE IF Head(chars) # Q THEN string_tokens(Tail(chars))
  ELSE LET rest == Tail(chars)
           closing == {i \in 1..Len(rest) : rest[i] = Q}
       IN IF closing = {} THEN <<>>
          ELSE LET e == CHOOSE i \in closing : \A j \in closing : i <= j
               IN <<<<Q>> \o SubSeq(rest, 1, e)>> \o string_tokens(SubSeq(rest, e + 1, Len(rest)))

\* ------------------------------------------------------ optional values
\* Optional[T]: None is the empty sequence, a value v the sequence <<v>>
Nothing == <<>>

Just(v) == <<v>>

\* ---------------------------------------- hoa/ast: folds over formulas
\* a fold that follows the first operand of a node only
RECURSIVE accepting_sets_first_operand(_)
accepting_sets_first_operand(f) ==
  CASE f.tag \in MonotoneClasses -> accepting_sets_first_operand(f.operands[1])
    [] f.tag = "_Not" -> accepting_sets_first_operand(f.argument)
    [] f.tag = "AcceptanceAtom" -> {f.acceptance_set}
    [] OTHER -> {}

\* accepting_sets: the default case (literals) is the empty set
RECURSIVE accepting_sets(_)
accepting_sets(f) ==
  CASE f.tag \in MonotoneClasses ->
         UNION {accepting_sets(f.operands[i]) : i \in 1..Len(f.operands)}
    [] f.tag = "_Not" -> accepting_sets(f.argument)
    [] f.tag = "AcceptanceAtom" -> {f.acceptance_set}
    [] OTHER -> {}

nb_accepting_sets(f) == Cardinality(accepting_sets(f))

\* a fold over label formulas in which an alias contributes nothing
RECURSIVE label_propositions_skips_alias(_)
label_propositions_skips_alias(f) ==
  CASE f.tag \in MonotoneClasses ->
         UNION {label_propositions_skips_alias(f.operands[i]) : i \in 1..Len(f.operands)}
    [] f.tag = "_Not" -> label_propositions_skips_alias(f.argument)
    [] f.tag = "LabelAtom" -> {f.proposition}
    [] OTHER -> {}

\* propositions of hoa/ast/label.py: the default case is the empty set, for
\* the literals and for any other value, None included
RECURSIVE label_propositions(_)
label_propositions(f) ==
  CASE f.tag \in MonotoneClasses ->
         UNION {label_propositions(f.operands[i]) : i \in 1..Len(f.operands)}
    [] f.tag = "_Not" -> label_propositions(f.argument)
    [] f.tag = "LabelAtom" -> {f.proposition}
    [] f.tag = "LabelAlias" -> label_propositions(f.expression)
    [] OTHER -> {}

\* AtomType(value): the member whose value is the token "Fin" or "Inf"
AtomType_of(value) == IF value = "Fin" THEN FINITE ELSE INFINITE

\* member.value
AtomType_value(member) == IF member = FINITE THEN "Fin" ELSE "Inf"

\* --------------------------- hoa/parsers.py: reduction of expressions
\* An expression of the text is the parse tree the grammar makes of it: a
\* record with the name of the production in "rule" and its children.

\* reduce(function, args) for a binary operator that may raise: reduce_next
\* goes on with the outcome r of the operator on the first two elements
RECURSIVE reduce_from(_, _, _)
RECURSIVE reduce_next(_, _, _)
reduce_next(symbol, r, rest) ==
  IF r.exc # "ok" THEN r ELSE reduce_from(symbol, r.val, rest)

reduce_from(symbol, value, rest) ==
  IF rest = <<>> THEN Return(value)
  ELSE reduce_next(symbol,
                   IF symbol = "&" THEN and_(value, Head(rest)) ELSE or_(value, Head(rest)),
                   Tail(rest))

or_label_expr(args) == reduce_from("|", Head(args), Tail(args))

and_label_expr(args) == reduce_from("&", Head(args), Tail(args))

not_label_expr(args) == invert(args[1])

\* the alias table is read: a name that is not a key is a ValueError
alias_label_expr(aliases, name) ==
  IF name \notin DOMAIN aliases THEN Raise("ValueError") ELSE Return(aliases[name])

atom_label_expr(int) == Return(LabelAtom(int))

boolean_label_expr(boolean) == Return(IF boolean THEN TrueFormula ELSE FalseFormula)

\* the callback of a label expression with operands, on the outcome of the
\* reduction of its children
label_callback(rule, args) ==
  IF args.exc # "ok" THEN args
  ELSE IF rule = "not_label_expr" THEN not_label_expr(args.val)
  ELSE IF rule = "and_label_expr" THEN and_label_expr(args.val)
  ELSE or_label_expr(args.val)

\* Transformer.transform on a label expression: children first, left to right
RECURSIVE label_expr(_, _)
label_expr(tree, aliases) ==
  CASE tree.rule = "boolean_label_expr" -> boolean_label_expr(tree.bool)
    [] tree.rule = "atom_label_expr" -> atom_label_expr(tree.int)
    [] tree.rule = "alias_label_expr" -> alias_label_expr(aliases, tree.aname)
    [] OTHER ->
         label_callback(
           tree.rule,
           map_outcomes([i \in 1..Len(tree.args) |-> label_expr(tree.args[i], aliases)]))

atom_acceptance_cond(kind, int) == Return(AcceptanceAtom(AtomType_of(kind), int, FALSE))

\* AcceptanceAtom(accepting_set, atom_type, True): the first two arguments
\* are passed in the other order than the fields (atom_type, acceptance_set)
not_acceptance_cond(kind, int) == Return(AcceptanceAtom(int, AtomType_of(kind), TRUE))

and_acceptance_cond(args) == reduce_from("&", Head(args), Tail(args))

or_acceptance_cond(args) == reduce_from("|", Head(args), Tail(args))

boolean_acceptance_cond(boolean) == Return(IF boolean THEN TrueFormula ELSE FalseFormula)

\* the callback of an acceptance condition with operands, on the outcome of
\* the reduction of its children
acceptance_callback(rule, args) ==
  IF args.exc # "ok" THEN args
  ELSE IF rule = "and_acceptance_cond" THEN and_acceptance_cond(args.val)
  ELSE or_acceptance_cond(args.val)

\* Transformer.transform on an acceptance condition
RECURSIVE acceptance_cond(_)
acceptance_cond(tree) ==
  CASE tree.rule = "boolean_acceptance_cond" -> boolean_acceptance_cond(tree.bool)
    [] tree.rule = "atom_acceptance_cond" -> atom_acceptance_cond(tree.kind, tree.int)
    [] tree.rule = "not_acceptance_cond" -> not_acceptance_cond(tree.kind, tree.int)
    [] OTHER ->
         acceptance_callback(
           tree.rule,
           map_outcomes([i \in 1..Len(tree.args) |-> acceptance_cond(tree.args[i])]))

\* max(set): a ValueError on the empty set; members of AtomType are not
\* ordered, so that comparing one with anything is a TypeError
max(S) ==
  IF S = {} THEN Raise("ValueError")
  ELSE IF Cardinality(S) = 1 THEN Return(CHOOSE e \in S : TRUE)
  ELSE IF \E e \in S : e \in AtomType THEN Raise("TypeError")
  ELSE Return(CHOOSE e \in S : \A o \in S : o <= e)

\* assert_ of the chain with m the outcome of max(accepting_sets_), leaving
\* out the comparison of the maximum
assert_counts_only(m, len_accepting_sets, expected_nb_accepting_sets, actual_nb_accepting_sets) ==
  IF m.exc # "ok" THEN m
  ELSE IF /\ len_accepting_sets - 1 = expected_nb_accepting_sets - 1
          /\ expected_nb_accepting_sets - 1 = actual_nb_accepting_sets - 1
    THEN Return(None)
  ELSE Raise("AssertionError")

\* assert_(max == len - 1 == expected - 1 == actual - 1) with m the outcome
\* of max(accepting_sets_)
assert_counts(m, len_accepting_sets, expected_nb_accepting_sets, actual_nb_accepting_sets) ==
  IF m.exc # "ok" THEN m
  ELSE IF /\ m.val = len_accepting_sets - 1
          /\ len_accepting_sets - 1 = expected_nb_accepting_sets - 1
          /\ expected_nb_accepting_sets - 1 = actual_nb_accepting_sets - 1
    THEN Return(None)
  ELSE Raise("AssertionError")

\* the check of the 'acceptance' callback
acceptance_check(expected_nb_accepting_sets, acceptance_condition) ==
  assert_counts(max(accepting_sets(acceptance_condition)),
                Cardinality(accepting_sets(acceptance_condition)),
                expected_nb_accepting_sets,
                nb_accepting_sets(acceptance_condition))

\* ------------------------------------ hoa/printers.py: printed formulas
\* The printed text of a formula is given as the parse tree of that text:
\* every node is printed inside its own parentheses.
RECURSIVE label_expression_to_string(_)
label_expression_to_string(f) ==
  CASE f.tag = "LabelAtom" ->
         [rule |-> "atom_label_expr", int |-> int_str(str_int(f.proposition)).val]
    [] f.tag = "LabelAlias" -> [rule |-> "alias_label_expr", aname |-> f.alias]
    [] f.tag \in MonotoneClasses ->
         [rule |-> IF absorbing(f.tag) = FalseFormula
                     THEN "and_label_expr" ELSE "or_label_expr",
          args |-> [i \in 1..Len(f.operands) |-> label_expression_to_string(f.operands[i])]]
    [] f.tag = "_Not" ->
         [rule |-> "not_label_expr", args |-> <<label_expression_to_string(f.argument)>>]
    [] f.tag = "TrueFormula" -> [rule |-> "boolean_label_expr", bool |-> TRUE]
    [] OTHER -> [rule |-> "boolean_label_expr", bool |-> FALSE]

RECURSIVE acceptance_condition_to_string(_)
acceptance_condition_to_string(f) ==
  CASE f.tag = "AcceptanceAtom" ->
         [rule |-> IF f.negated THEN "not_acceptance_cond" ELSE "atom_acceptance_cond",
          kind |-> AtomType_value(f.atom_type),
          int |-> int_str(str_int(f.acceptance_set)).val]
    [] f.tag \in MonotoneClasses ->
         [rule |-> IF absorbing(f.tag) = FalseFormula
                     THEN "and_acceptance_cond" ELSE "or_acceptance_cond",
          args |-> [i \in 1..Len(f.operands) |-> acceptance_condition_to_string(f.operands[i])]]
    [] f.tag = "TrueFormula" -> [rule |-> "boolean_acceptance_cond", bool |-> TRUE]
    [] OTHER -> [rule |-> "boolean_acceptance_cond", bool |-> FALSE]

\* The printed text itself, as the str the printers return; an alias name
\* is held as one piece.
\* cls.SYMBOL
SYMBOL(cls) ==
  CASE cls \in {"_And", "_PositiveAnd"} -> "&"
    [] cls \in {"_Or", "_PositiveOr"} -> "|"
    [] OTHER -> "!"

\* str(f) of an acceptance formula: BinaryOp, UnaryOp, TrueFormula and
\* FalseFormula define __str__, AcceptanceAtom has the repr of its dataclass
RECURSIVE py_str(_)
py_str(f) ==
  CASE f.tag \in MonotoneClasses ->
         <<"(", SYMBOL(f.tag), " ">>
           \o join(<<" ">>, [i \in 1..Len(f.operands) |-> py_str(f.operands[i])])
           \o <<")">>
    [] f.tag = "_Not" -> <<"(", SYMBOL(f.tag), " ">> \o py_str(f.argument) \o <<")">>
    [] f.tag = "TrueFormula" -> <<"(", "t", "r", "u", "e", ")">>
    [] f.tag = "FalseFormula" -> <<"(", "f", "a", "l", "s", "e", ")">>
    [] OTHER ->
         <<"A", "c", "c", "e", "p", "t", "a", "n", "c", "e", "A", "t", "o", "m", "(", "a", "t", "o", "m", "_", "t", "y", "p", "e", "=">>
           \o (IF f.atom_type = FINITE
                 THEN <<"<", "A", "t", "o", "m", "T", "y", "p", "e", ".", "F", "I", "N", "I", "T", "E", ":", " ", "'", "F", "i", "n", "'", ">">>
                 ELSE <<"<", "A", "t", "o", "m", "T", "y", "p", "e", ".", "I", "N", "F", "I", "N", "I", "T", "E", ":", " ", "'", "I", "n", "f", "'", ">">>)
           \o <<",", " ", "a", "c", "c", "e", "p", "t", "a", "n", "c", "e", "_", "s", "e", "t", "=">>
           \o str_int(f.acceptance_set)
           \o <<",", " ", "n", "e", "g", "a", "t", "e", "d", "=">>
           \o (IF f.negated THEN <<"T", "r", "u", "e">> ELSE <<"F", "a", "l", "s", "e">>)
           \o <<")">>

\* the str returned by acceptance_condition_to_string(f)
RECURSIVE acceptance_condition_chars(_)
acceptance_condition_chars(f) ==
  CASE f.tag = "AcceptanceAtom" ->
         (IF f.atom_type = FINITE THEN <<"F", "i", "n">> ELSE <<"I", "n", "f">>) \o <<"(">>
           \o (IF f.negated THEN <<"!">> ELSE <<>>)
           \o str_int(f.acceptance_set) \o <<")">>
    [] f.tag \in MonotoneClasses ->
         <<"(">>
           \o join(<<" ", SYMBOL(f.tag), " ">>,
                   [i \in 1..Len(f.operands) |-> acceptance_condition_chars(f.operands[i])])
           \o <<")">>
    [] f.tag = "TrueFormula" -> <<"t">>
    [] f.tag = "FalseFormula" -> <<"f">>
    [] OTHER -> py_str(f)

\* the str returned by label_expression_to_string(f)
RECURSIVE label_expression_chars(_)
label_expression_chars(f) ==
  CASE f.tag = "LabelAtom" -> str_int(f.proposition)
    [] f.tag = "LabelAlias" -> <<f.alias>>
    [] f.tag \in MonotoneClasses ->
         <<"(">>
           \o join(<<" ", SYMBOL(f.tag), " ">>,
                   [i \in 1..Len(f.operands) |-> label_expression_chars(f.operands[i])])
           \o <<")">>
    [] f.tag = "_Not" -> <<"(", SYMBOL(f.tag)>> \o label_expression_chars(f.argument) \o <<")">>
    [] f.tag = "TrueFormula" -> <<"t">>
    [] OTHER -> <<"f">>

\* ------------------------------- hoa/parsers.py: the header callbacks
\* A header item of the text is a record with the production in "rule" and
\* its tokens after the token callbacks (INT an int, STRING the quoted str).
\* A callback returns the pair (HeaderItemType, value), here [type, value].
Item(type, value) == Return([type |-> type, value |-> value])

num_states(int) == Item("num_states", int)

\* frozenset(*args[::2]) of the flat list made by state_conj
start_state(state_conj) == Item("start_state", Range(state_conj))

\* the 'propositions' callback without the comparison of the names with
\* their set
propositions_count_only(int, strings) ==
  IF int # Len(strings) THEN Raise("AssertionError")
  ELSE Item("propositions", [i \in 1..Len(strings) |-> SubSeq(strings[i], 2, Len(strings[i]) - 1)])

\* the count is compared with the number of names, the names with their set;
\* prop[1:-1] drops the first and the last character of each
propositions(int, strings) ==
  IF int # Len(strings) THEN Raise("AssertionError")
  ELSE IF Len(strings) # Cardinality(Range(strings)) THEN Raise("AssertionError")
  ELSE Item("propositions", [i \in 1..Len(strings) |-> SubSeq(strings[i], 2, Len(strings[i]) - 1)])

\* 'label_alias not in self._aliases' looks a LabelAlias up among keys that
\* are names, and no LabelAlias equals a str: the assertion always passes
alias_entry(aliases, alias_name, label_expression) ==
  LET label_alias == LabelAlias(alias_name, label_expression)
  IN [n \in DOMAIN aliases \cup {alias_name} |->
        IF n = alias_name THEN label_alias ELSE aliases[n]]

alias(alias_name, label_expression) ==
  Item("alias", LabelAlias(alias_name, label_expression))

\* the value returned when the check c passed
acceptance_item(c, acceptance_condition) ==
  IF c.exc # "ok" THEN c ELSE Item("acceptance", acceptance_condition)

acceptance(expected_nb_accepting_sets, acceptance_condition) ==
  acceptance_item(acceptance_check(expected_nb_accepting_sets, acceptance_condition),
                  acceptance_condition)

acc_name(ident, params) == Item("acc_name", [ident |-> ident, params |-> params])

\* args[0]: the first STRING of the line
tool(strings) == Item("tool", strings[1])

name(chars) == Item("name", strip_quotes(chars))

properties(idents) == Item("properties", idents)

headername(key, values) == Item("headername", [key |-> key, values |-> values])

\* the callback of a header item, on the outcome of the reduction of its
\* child expression (alias and acceptance items have one)
header_callback(item, child) ==
  IF child.exc # "ok" THEN child
  ELSE CASE item.rule = "num_states" -> num_states(item.int)
         [] item.rule = "start_state" -> start_state(item.state_conj)
         [] item.rule = "propositions" -> propositions(item.int, item.strings)
         [] item.rule = "alias" -> alias(item.aname, child.val)
         [] item.rule = "acceptance" -> acceptance(item.int, child.val)
         [] item.rule = "acc_name" -> acc_name(item.ident, item.params)
         [] item.rule = "tool" -> tool(item.strings)
         [] item.rule = "name" -> name(item.chars)
         [] item.rule = "properties" -> properties(item.idents)
         [] OTHER -> headername(item.key, item.values)

\* Transformer.transform on one header item: the child expression, then the
\* callback
header_item(item, aliases) ==
  header_callback(item,
                  IF item.rule = "alias" THEN label_expr(item.label, aliases)
                  ELSE IF item.rule = "acceptance" THEN acceptance_cond(item.cond)
                  ELSE Return(None))

\* the header items reduced in file order; the first exception ends the
\* reduction, the entries written to the alias table before it remain;
\* header_items_next goes on with the outcome r of the first item
RECURSIVE header_items(_, _, _)
RECURSIVE header_items_next(_, _, _, _)
header_items_next(r, rest, aliases, done) ==
  IF r.exc # "ok" THEN [out |-> r, aliases |-> aliases]
  ELSE header_items(
         rest,
         IF r.val.type = "alias"
           THEN alias_entry(aliases, r.val.value.alias, r.val.value.expression)
           ELSE aliases,
         Append(done, r.val))

header_items(items, aliases, done) ==
  IF items = <<>> THEN [out |-> Return(done), aliases |-> aliases]
  ELSE header_items_next(header_item(Head(items), aliases), Tail(items), aliases, done)

\* headertype2value and custom_headers before the loop of 'header'
EmptyHeaderValues ==
  [num_states |-> Nothing, start_state |-> Nothing, propositions |-> Nothing,
   alias |-> Nothing, acceptance |-> Nothing, acc_name |-> Nothing,
   tool |-> Nothing, name |-> Nothing, properties |-> Nothing,
   custom_headers |-> <<>>]

Keys(custom_headers) == {custom_headers[i].key : i \in 1..Len(custom_headers)}

\* custom_headers[key] = list(map(to_header_value, arg_list)), with vs the
\* outcome of the map
set_custom_header(h, key, vs) ==
  IF vs.exc # "ok" THEN vs
  ELSE Return([h EXCEPT !.custom_headers = Append(h.custom_headers, [key |-> key, values |-> vs.val])])

\* one turn of the loop of 'header' without the assertion on the types that
\* occur once: a later value replaces the earlier one
header_turn_overwrites(h, type, value) ==
  CASE type = "alias" ->
         Return([h EXCEPT !.alias =
           Just((IF h.alias = Nothing THEN <<>> ELSE h.alias[1]) \o <<value>>)])
    [] type = "properties" ->
         Return([h EXCEPT !.properties =
           Just((IF h.properties = Nothing THEN <<>> ELSE h.properties[1]) \o value)])
    [] type = "start_state" ->
         Return([h EXCEPT !.start_state =
           Just((IF h.start_state = Nothing THEN {} ELSE h.start_state[1]) \cup {value})])
    [] type = "headername" ->
         IF value.key \in Keys(h.custom_headers) THEN Raise("AssertionError")
         ELSE set_custom_header(
                h, value.key,
                map_outcomes([i \in 1..Len(value.values) |-> to_header_value(value.values[i])]))
    [] OTHER -> Return([h EXCEPT ![type] = Just(value)])

\* one turn of the loop of 'header' on the pair (type, value)
header_turn(h, type, value) ==
  CASE type = "alias" ->
         Return([h EXCEPT !.alias =
           Just((IF h.alias = Nothing THEN <<>> ELSE h.alias[1]) \o <<value>>)])
    [] type = "properties" ->
         Return([h EXCEPT !.properties =
           Just((IF h.properties = Nothing THEN <<>> ELSE h.properties[1]) \o value)])
    [] type = "start_state" ->
         Return([h EXCEPT !.start_state =
           Just((IF h.start_state = Nothing THEN {} ELSE h.start_state[1]) \cup {value})])
    [] type = "headername" ->
         IF value.key \in Keys(h.custom_headers) THEN Raise("AssertionError")
         ELSE set_custom_header(
                h, value.key,
                map_outcomes([i \in 1..Len(value.values) |-> to_header_value(value.values[i])]))
    [] OTHER ->
         IF h[type] # Nothing THEN Raise("AssertionError")
         ELSE Return([h EXCEPT ![type] = Just(value)])

\* the loop of 'header' over the (type, value) pairs; header_loop_next goes
\* on with the outcome r of the first turn
RECURSIVE header_loop(_, _)
RECURSIVE header_loop_next(_, _)
header_loop_next(r, rest) ==
  IF r.exc # "ok" THEN r ELSE header_loop(rest, r.val)

header_loop(pairs, h) ==
  IF pairs = <<>> THEN Return(h)
  ELSE header_loop_next(header_turn(h, Head(pairs).type, Head(pairs).value), Tail(pairs))

Acceptance(condition, name_, parameters) ==
  [condition |-> condition, name |-> name_, parameters |-> parameters]

HOAHeader(format_version, acceptance_, h) ==
  [format_version |-> format_version,
   acceptance |-> acceptance_,
   nb_states |-> h.num_states,
   start_states |-> h.start_state,
   propositions |-> h.propositions,
   aliases |-> h.alias,
   tool |-> h.tool,
   name |-> h.name,
   properties |-> h.properties,
   headernames |-> IF h.custom_headers = <<>> THEN Nothing ELSE Just(h.custom_headers)]

\* Acceptance(condition, name, parameters) and the HOAHeader, with ps the
\* outcome of map(to_parameter_value, acceptance_args[1:])
named_header(format_version, h, ps) ==
  IF ps.exc # "ok" THEN ps
  ELSE Return(HOAHeader(format_version,
                        Acceptance(h.acceptance[1], Just(h.acc_name[1].ident), ps.val),
                        h))

\* 'header' after its loop, with l the outcome of the loop
header_after_loop(format_version, l) ==
  IF l.exc # "ok" THEN l
  ELSE IF l.val.acceptance = Nothing THEN Raise("AssertionError")
  ELSE IF l.val.acc_name # Nothing
    THEN named_header(
           format_version, l.val,
           map_outcomes([i \in 1..Len(l.val.acc_name[1].params) |->
                           to_parameter_value(l.val.acc_name[1].params[i])]))
  ELSE Return(HOAHeader(format_version, Acceptance(l.val.acceptance[1], Nothing, <<>>), l.val))

\* the 'header' callback on the format version and the reduced items
header(format_version, pairs) ==
  header_after_loop(format_version, header_loop(pairs, EmptyHeaderValues))

\* --------------------------------- hoa/parsers.py: the body callbacks
State(index, label, name_, acc_sig) ==
  [index |-> index, label |-> label, name |-> name_, acc_sig |-> acc_sig]

Edge(state_conj, label, acc_sig) ==
  [state_conj |-> state_conj, label |-> label, acc_sig |-> acc_sig]

\* the label of a state or edge line, when there is one; e is the outcome
\* of the reduction of the label expression
label_child(olabel, e) ==
  IF olabel = Nothing THEN Return(Nothing)
  ELSE IF e.exc # "ok" THEN e
  ELSE Return(Just(e.val))

optional_label(olabel, aliases) ==
  label_child(olabel,
              IF olabel = Nothing THEN Return(None) ELSE label_expr(olabel[1], aliases))

\* frozenset({kwargs["acc_sig"]}) with kwargs["acc_sig"] the first child of
\* the acc_sig tree; the name loses its quotes
state_name(int, label, ochars, oacc_sig) ==
  IF oacc_sig # Nothing /\ oacc_sig[1] = <<>> THEN Raise("IndexError")
  ELSE Return(State(int,
                    label,
                    IF ochars = Nothing THEN Nothing ELSE Just(strip_quotes(ochars[1])),
                    IF oacc_sig = Nothing THEN Nothing ELSE Just({oacc_sig[1][1]})))

\* frozenset(children) of the acc_sig tree
edge(label, state_conj, oacc_sig) ==
  Return(Edge(state_conj,
              label,
              IF oacc_sig = Nothing THEN Nothing ELSE Just(Range(oacc_sig[1]))))

\* the callback of a body line, on the outcome l of the reduction of its label
body_callback(item, l) ==
  IF l.exc # "ok" THEN l
  ELSE IF item.rule = "state_name"
    THEN state_name(item.int, l.val, item.ochars, item.oacc_sig)
  ELSE edge(l.val, item.state_conj, item.oacc_sig)

\* Transformer.transform on one body line: the label, then the callback
body_item(item, aliases) == body_callback(item, optional_label(item.olabel, aliases))

\* state2edges[current_state] = []: a new key is appended, an equal key
\* keeps its place and has its list replaced
set_key(state2edges, key) ==
  IF \E i \in 1..Len(state2edges) : state2edges[i].state = key
    THEN [i \in 1..Len(state2edges) |->
            IF state2edges[i].state = key THEN [state |-> key, edges |-> <<>>]
            ELSE state2edges[i]]
    ELSE Append(state2edges, [state |-> key, edges |-> <<>>])

\* state2edges[current_state].append(arg)
append_edge(state2edges, key, e) ==
  [i \in 1..Len(state2edges) |->
     IF state2edges[i].state = key
       THEN [state |-> key, edges |-> Append(state2edges[i].edges, e)]
       ELSE state2edges[i]]

\* the loop of 'body'; current_state is None until the first State
RECURSIVE body_loop(_, _, _)
body_loop(args, state2edges, current_state) ==
  IF args = <<>> THEN Return(state2edges)
  ELSE IF "index" \in DOMAIN Head(args)
    THEN body_loop(Tail(args), set_key(state2edges, Head(args)), Just(Head(args)))
  ELSE IF current_state = Nothing THEN Raise("KeyError")
  ELSE body_loop(Tail(args), append_edge(state2edges, current_state[1], Head(args)),
                 current_state)

\* the 'body' callback on the outcome of the reduction of the body lines
body_callback_all(args) ==
  IF args.exc # "ok" THEN args ELSE body_loop(args.val, <<>>, Nothing)

\* the body lines reduced in file order, then the 'body' callback
body(items, aliases) ==
  body_callback_all(map_outcomes([i \in 1..Len(items) |-> body_item(items[i], aliases)]))

HOA(header_, body_) == [header |-> header_, body |-> body_]

\* the 'automaton' callback on the outcomes h and b of the reduction of the
\* header and of the body; the header is reduced first
automaton(h, b) ==
  IF h.exc # "ok" THEN h
  ELSE IF b.exc # "ok" THEN b
  ELSE Return(HOA(h.val, b.val))

\* the document after its header items, with hi their outcome and the alias
\* table they leave
after_header_items(doc, hi) ==
  IF hi.out.exc # "ok" THEN hi
  ELSE [out |-> automaton(header(doc.format_version, hi.out.val),
                          body(doc.body, hi.aliases)),
        aliases |-> hi.aliases]

\* Transformer.transform on the tree of a document, with the alias table
\* of the transformer before and after
transform(doc, aliases) == after_header_items(doc, header_items(doc.header, aliases, <<>>))

\* ------------------------------------------------- hoa/dumpers.py: dumps
\* The printed document is given as the tree the grammar makes of the
\* printed text: one item per printed line, with the tokens of the line.

\* the elements of a set in the order of an iteration over it
RECURSIVE iterate(_)
iterate(S) ==
  IF S = {} THEN <<>>
  ELSE LET e == CHOOSE e \in S : TRUE IN <<e>> \o iterate(S \ {e})

printed_int(i) == int_str(str_int(i)).val

\* the lines printed for the header
dumps_header(hoa_header) ==
  LET ps == map_outcomes([i \in 1..Len(hoa_header.acceptance.parameters) |->
                            to_acceptance_parameter(hoa_header.acceptance.parameters[i])])
      custom == IF hoa_header.headernames = Nothing THEN <<>> ELSE hoa_header.headernames[1]
      cvs == [k \in 1..Len(custom) |->
                map_outcomes([i \in 1..Len(custom[k].values) |->
                                to_hoa_header_value(custom[k].values[i])])]
      states_line ==
        IF hoa_header.nb_states = Nothing THEN <<>>
        ELSE <<[rule |-> "num_states", int |-> printed_int(hoa_header.nb_states[1])]>>
      start_lines ==
        IF hoa_header.start_states = Nothing THEN <<>>
        ELSE LET sets == iterate(hoa_header.start_states[1])
             IN [i \in 1..Len(sets) |->
                   [rule |-> "start_state",
                    state_conj |-> LET l == iterate(sets[i])
                                   IN [j \in 1..Len(l) |-> printed_int(l[j])]]]
      ap_line ==
        IF hoa_header.propositions = Nothing \/ hoa_header.propositions = Just(<<>>) THEN <<>>
        ELSE LET props == hoa_header.propositions[1]
             IN <<[rule |-> "propositions",
                   int |-> printed_int(Len(props)),
                   strings |-> string_tokens(<<Q>> \o join(<<Q, " ", Q>>, props) \o <<Q>>)]>>
      alias_lines ==
        IF hoa_header.aliases = Nothing THEN <<>>
        ELSE LET as == hoa_header.aliases[1]
             IN [i \in 1..Len(as) |->
                   [rule |-> "alias", aname |-> as[i].alias,
                    label |-> label_expression_to_string(as[i].expression)]]
      acceptance_line ==
        <<[rule |-> "acceptance",
           int |-> printed_int(nb_accepting_sets(hoa_header.acceptance.condition)),
           cond |-> acceptance_condition_to_string(hoa_header.acceptance.condition)]>>
      acc_name_line ==
        IF hoa_header.acceptance.name = Nothing THEN <<>>
        ELSE <<[rule |-> "acc_name", ident |-> hoa_header.acceptance.name[1],
                params |-> [i \in 1..Len(ps.val) |-> token_value(ps.val[i])]]>>
      tool_line ==
        IF hoa_header.tool = Nothing THEN <<>>
        ELSE <<[rule |-> "tool",
                strings |-> string_tokens(
                  join(<<" ">>, [i \in 1..Len(hoa_header.tool[1]) |-> <<hoa_header.tool[1][i]>>]))]>>
      name_line ==
        IF hoa_header.name = Nothing THEN <<>>
        ELSE <<[rule |-> "name",
                chars |-> string_tokens(<<Q>> \o hoa_header.name[1] \o <<Q>>)[1]]>>
      properties_line ==
        IF hoa_header.properties = Nothing \/ hoa_header.properties = Just(<<>>) THEN <<>>
        ELSE <<[rule |-> "properties", idents |-> hoa_header.properties[1]]>>
      custom_lines ==
        [k \in 1..Len(custom) |->
           [rule |-> "headername", key |-> custom[k].key,
            values |-> [i \in 1..Len(cvs[k].val) |-> token_value(cvs[k].val[i])]]]
  IN IF hoa_header.acceptance.name # Nothing /\ ps.exc # "ok" THEN Raise("ValueError")
     ELSE IF \E k \in 1..Len(custom) : cvs[k].exc # "ok" THEN Raise("ValueError")
     ELSE Return(states_line \o start_lines \o ap_line \o alias_lines \o acceptance_line
                 \o acc_name_line \o tool_line \o name_line \o properties_line
                 \o custom_lines)

\* the line printed for a state
dumps_state(state) ==
  [rule |-> "state_name",
   olabel |-> IF state.label = Nothing THEN Nothing
              ELSE Just(label_expression_to_string(state.label[1])),
   int |-> printed_int(state.index),
   ochars |-> IF state.name = Nothing THEN Nothing
              ELSE Just(string_tokens(<<Q>> \o state.name[1] \o <<Q>>)[1]),
   oacc_sig |-> IF state.acc_sig = Nothing THEN Nothing
                ELSE Just(LET l == iterate(state.acc_sig[1])
                          IN [j \in 1..Len(l) |-> printed_int(l[j])])]

\* the line printed for an edge
dumps_edge(e) ==
  [rule |-> "edge",
   olabel |-> IF e.label = Nothing THEN Nothing
              ELSE Just(label_expression_to_string(e.label[1])),
   state_conj |-> [j \in 1..Len(e.state_conj) |-> printed_int(e.state_conj[j])],
   oacc_sig |-> IF e.acc_sig = Nothing THEN Nothing
                ELSE Just(LET l == iterate(e.acc_sig[1])
                          IN [j \in 1..Len(l) |-> printed_int(l[j])])]

\* the lines printed for the body: each state followed by its edges
RECURSIVE dumps_body(_)
dumps_body(state2edges) ==
  IF state2edges = <<>> THEN <<>>
  ELSE <<dumps_state(Head(state2edges).state)>>
       \o [i \in 1..Len(Head(state2edges).edges) |-> dumps_edge(Head(state2edges).edges[i])]
       \o dumps_body(Tail(state2edges))

\* dumps with the lines of the header in the opposite order
dumps_reversed_header(hoa) ==
  LET h == dumps_header(hoa.header)
  IN IF h.exc # "ok" THEN h
     ELSE Return([format_version |-> hoa.header.format_version,
                  header |-> Reverse(h.val),
                  body |-> dumps_body(hoa.body)])

dumps(hoa) ==
  LET h == dumps_header(hoa.header)
  IN IF h.exc # "ok" THEN h
     ELSE Return([format_version |-> hoa.header.format_version,
                  header |-> h.val,
                  body |-> dumps_body(hoa.body)])

\* hoa_obj_1 == hoa_obj_2: the equality of the dataclasses, in which the
\* dicts (custom headers, state2edges) are compared without their order and
\* header values with Python's ==
HeadernamesValue(h) ==
  IF h.headernames = Nothing THEN Nothing
  ELSE Just({[key |-> h.headernames[1][i].key,
              values |-> PySeqNorm(h.headernames[1][i].values)] :
             i \in 1..Len(h.headernames[1])})

HeaderValue(h) ==
  [h EXCEPT !.headernames = HeadernamesValue(h),
            !.acceptance = [h.acceptance EXCEPT !.parameters = PySeqNorm(h.acceptance.parameters)]]

HOA_eq(a, b) ==
  HeaderValue(a.header) = HeaderValue(b.header) /\ Range(a.body) = Range(b.body)

\* ------------------------------------------------------------- the state
VARIABLES
  alg,        \* the algebra the library user works in: "label" or "acceptance"
  x,          \* the formula held by the library user
  pc,         \* "idle", or "called" while the outcome of a call is pending
  call,       \* the call of a constructor or operator being made, with its outcome
  aliases,    \* HOATransformer._aliases of the parser: alias name -> LabelAlias
  text,       \* the document handed to the parser
  step,       \* "start", "parsed", "dumped", "reparsed"
  hoa_obj_1,  \* the outcome of parsing text
  temp,       \* the outcome of dumping hoa_obj_1
  hoa_obj_2   \* the outcome of parsing temp with the same parser

algebraVars == <<alg, x, pc, call>>

parserVars == <<aliases, text, step, hoa_obj_1, temp, hoa_obj_2>>

vars == <<alg, x, pc, call, aliases, text, step, hoa_obj_1, temp, hoa_obj_2>>

NoCall == [op |-> "none", args |-> <<>>, out |-> Return(None)]

\* dict()
EmptyDict == [n \in {} |-> None]

NoDocument == [format_version |-> "v1", header |-> <<>>, body |-> <<>>]

\* no parser is at work
ParserIdle ==
  /\ aliases = EmptyDict
  /\ text = NoDocument
  /\ step = "none"
  /\ hoa_obj_1 = Return(None)
  /\ temp = Return(None)
  /\ hoa_obj_2 = Return(None)

\* no library user is at work
AlgebraIdle ==
  /\ alg = "label"
  /\ x = TrueFormula
  /\ pc = "none"
  /\ call = NoCall

\* ------------------------------------------ the library user (algebra)
\* the formulas a user starts from: atoms and the two literals
Leaves(a) ==
  IF a = "label"
    THEN {LabelAtom(p) : p \in 0..(NbProps - 1)} \cup Literals
    ELSE {Fin(0), Inf(1)} \cup Literals

Classes(a) == IF a = "label" THEN LabelClasses ELSE PositiveClasses

\* the operands of a call: the formula held and the leaves
Pool == Leaves(alg) \cup {x}

InitAlgebra ==
  /\ alg \in {"label", "acceptance"}
  /\ x \in Leaves(alg)
  /\ pc = "idle"
  /\ call = NoCall
  /\ ParserIdle

\* the call of an idle user is made and its outcome is pending
Finish(op, args, out) ==
  /\ call' = [op |-> op, args |-> args, out |-> out]
  /\ pc' = "called"
  /\ UNCHANGED <<alg, x>>
  /\ UNCHANGED parserVars

\* cls(*args), for And, Or, PositiveAnd, PositiveOr
Construct ==
  /\ pc = "idle"
  /\ \E cls \in Classes(alg), n \in 0..MaxArgs :
       \E args \in [1..n -> Pool] :
         Finish(cls, args, MonotoneOp_call(cls, args))

\* l & r
OpAnd ==
  /\ pc = "idle"
  /\ \E l \in Pool, r \in Pool : Finish("&", <<l, r>>, and_(l, r))

\* l | r
OpOr ==
  /\ pc = "idle"
  /\ \E l \in Pool, r \in Pool : Finish("|", <<l, r>>, or_(l, r))

\* ~f
OpInvert ==
  /\ pc = "idle"
  /\ \E f \in Pool : Finish("~", <<f>>, invert(f))

\* x = <the call>: a returned formula of at most MaxSize nodes replaces x,
\* an exception leaves x as it was
Assign ==
  /\ pc = "called"
  /\ x' = IF call.out.exc = "ok" /\ Size(call.out.val) <= MaxSize THEN call.out.val ELSE x
  /\ pc' = "idle"
  /\ call' = NoCall
  /\ UNCHANGED alg
  /\ UNCHANGED parserVars

NextAlgebra == Construct \/ OpAnd \/ OpOr \/ OpInvert \/ Assign

SpecAlgebra == InitAlgebra /\ [][NextAlgebra]_vars

\* ------------------------------------------------ the documents parsed
\* set indices of the acceptance atoms of the documents are 0 .. MaxAccSet
MaxAccSet == 2
\* the header of a document has up to MaxHeaderItems lines before Acceptance
MaxHeaderItems == 2

AtomTrees ==
  {[rule |-> r, kind |-> k, int |-> i] :
     r \in {"atom_acceptance_cond", "not_acceptance_cond"},
     k \in {"Fin", "Inf"}, i \in 0..MaxAccSet}
  \cup {[rule |-> "boolean_acceptance_cond", bool |-> b] : b \in BOOLEAN}

\* acceptance conditions: an atom or literal, or two of them under & or |
AcceptanceTrees ==
  AtomTrees
  \cup {[rule |-> r, args |-> <<a, b>>] :
          r \in {"and_acceptance_cond", "or_acceptance_cond"},
          a \in AtomTrees, b \in AtomTrees}

AcceptanceLines ==
  {[rule |-> "acceptance", int |-> n, cond |-> c] :
     n \in 0..(MaxAccSet + 1), c \in AcceptanceTrees}

atom(i) == [rule |-> "atom_label_expr", int |-> i]

aname(n) == [rule |-> "alias_label_expr", aname |-> n]

\* Acceptance: 1 Inf(0)
Buchi == [rule |-> "acceptance", int |-> 1,
          cond |-> [rule |-> "atom_acceptance_cond", kind |-> "Inf", int |-> 0]]

\* Acceptance: 2 Inf(0) & (Inf(0) | Fin(1))
Nested ==
  [rule |-> "acceptance", int |-> 2,
   cond |-> [rule |-> "and_acceptance_cond",
             args |-> <<[rule |-> "atom_acceptance_cond", kind |-> "Inf", int |-> 0],
                        [rule |-> "or_acceptance_cond",
                         args |-> <<[rule |-> "atom_acceptance_cond", kind |-> "Inf", int |-> 0],
                                    [rule |-> "atom_acceptance_cond", kind |-> "Fin", int |-> 1]>>]>>]]

\* Acceptance: 2 Inf(0) & (Inf(0) & Fin(1))
Repeated ==
  [rule |-> "acceptance", int |-> 2,
   cond |-> [rule |-> "and_acceptance_cond",
             args |-> <<[rule |-> "atom_acceptance_cond", kind |-> "Inf", int |-> 0],
                        [rule |-> "and_acceptance_cond",
                         args |-> <<[rule |-> "atom_acceptance_cond", kind |-> "Inf", int |-> 0],
                                    [rule |-> "atom_acceptance_cond", kind |-> "Fin", int |-> 1]>>]>>]]

\* the header lines before the last Acceptance line
HeaderLines ==
  { [rule |-> "num_states", int |-> 2],
    [rule |-> "start_state", state_conj |-> <<0>>],
    [rule |-> "start_state", state_conj |-> <<0, 1>>],
    [rule |-> "propositions", int |-> 0, strings |-> <<>>],
    [rule |-> "propositions", int |-> 2, strings |-> <<<<Q, "a", Q>>, <<Q, "b", Q>>>>],
    [rule |-> "propositions", int |-> 1, strings |-> <<<<Q, "a", Q>>, <<Q, "b", Q>>>>],
    [rule |-> "propositions", int |-> 2, strings |-> <<<<Q, "a", Q>>, <<Q, "a", Q>>>>],
    [rule |-> "alias", aname |-> "@a", label |-> atom(0)],
    [rule |-> "alias", aname |-> "@a", label |-> atom(1)],
    [rule |-> "alias", aname |-> "@b",
     label |-> [rule |-> "and_label_expr",
                args |-> <<aname("@a"), [rule |-> "not_label_expr", args |-> <<atom(1)>>]>>]],
    Buchi,
    [rule |-> "acc_name", ident |-> "Rabin", params |-> <<PyInt(1)>>],
    [rule |-> "acc_name", ident |-> "parity",
     params |-> <<identifier(<<"m", "i", "n">>), identifier(<<"e", "v", "e", "n">>), PyInt(2)>>],
    [rule |-> "tool", strings |-> <<<<Q, "s", "p", Q>>>>],
    [rule |-> "name", chars |-> <<Q, "a", " ", "U", Q>>],
    [rule |-> "properties", idents |-> <<"deterministic", "complete">>],
    [rule |-> "headername", key |-> "spec",
     values |-> <<PyInt(3), string(<<Q, "x", Q>>), identifier(<<"o", "k">>)>>] }

\* the bodies of the documents
Bodies ==
  { <<>>,
    \* State: 0 "s" {0} / [0] 0 {0}
    << [rule |-> "state_name", olabel |-> Nothing, int |-> 0,
        ochars |-> Just(<<Q, "s", Q>>), oacc_sig |-> Just(<<0>>)],
       [rule |-> "edge", olabel |-> Just(atom(0)), state_conj |-> <<0>>,
        oacc_sig |-> Just(<<0>>)] >>,
    \* State: [t] 0 / [@a] 1 / State: 1 / [!0 | 1] 0&1 {0 1}
    << [rule |-> "state_name", olabel |-> Just([rule |-> "boolean_label_expr", bool |-> TRUE]),
        int |-> 0, ochars |-> Nothing, oacc_sig |-> Nothing],
       [rule |-> "edge", olabel |-> Just(aname("@a")), state_conj |-> <<1>>,
        oacc_sig |-> Nothing],
       [rule |-> "state_name", olabel |-> Nothing, int |-> 1, ochars |-> Nothing,
        oacc_sig |-> Nothing],
       [rule |-> "edge",
        olabel |-> Just([rule |-> "or_label_expr",
                         args |-> <<[rule |-> "not_label_expr", args |-> <<atom(0)>>], atom(1)>>]),
        state_conj |-> <<0, 1>>, oacc_sig |-> Just(<<0, 1>>)] >>,
    \* State: 0 / [0 & (1 & 2)] 0
    << [rule |-> "state_name", olabel |-> Nothing, int |-> 0, ochars |-> Nothing,
        oacc_sig |-> Nothing],
       [rule |-> "edge",
        olabel |-> Just([rule |-> "and_label_expr",
                         args |-> <<atom(0), [rule |-> "and_label_expr",
                                              args |-> <<atom(1), atom(2)>>]>>]),
        state_conj |-> <<0>>, oacc_sig |-> Nothing] >> }

Document(header_, body_) == [format_version |-> "v1", header |-> header_, body |-> body_]

\* the lines of the bodies made of up to MaxBodyLines lines
BodyLines ==
  { \* State: 0
    [rule |-> "state_name", olabel |-> Nothing, int |-> 0, ochars |-> Nothing,
     oacc_sig |-> Nothing],
    \* State: 0 "s"
    [rule |-> "state_name", olabel |-> Nothing, int |-> 0, ochars |-> Just(<<Q, "s", Q>>),
     oacc_sig |-> Nothing],
    \* State: 0 {0 1}
    [rule |-> "state_name", olabel |-> Nothing, int |-> 0, ochars |-> Nothing,
     oacc_sig |-> Just(<<0, 1>>)],
    \* State: 1 {1}
    [rule |-> "state_name", olabel |-> Nothing, int |-> 1, ochars |-> Nothing,
     oacc_sig |-> Just(<<1>>)],
    \* 0
    [rule |-> "edge", olabel |-> Nothing, state_conj |-> <<0>>, oacc_sig |-> Nothing],
    \* 1 {0 1}
    [rule |-> "edge", olabel |-> Nothing, state_conj |-> <<1>>, oacc_sig |-> Just(<<0, 1>>)] }

MaxBodyLines == 3

\* the bodies of up to MaxBodyLines of these lines: the first is a State line
LineBodies ==
  {b \in SeqsUpTo(BodyLines, MaxBodyLines) : b # <<>> /\ b[1].rule = "state_name"}

\* a document: either any Acceptance line alone, or some header lines, one
\* of three Acceptance lines and a body, or one Acceptance line and a body
\* of a few lines
Documents ==
  {Document(<<a>>, <<>>) : a \in AcceptanceLines}
  \cup {Document(h \o <<a>>, b) :
          h \in SeqsUpTo(HeaderLines, MaxHeaderItems), a \in {Buchi, Nested, Repeated}, b \in Bodies}
  \cup {Document(<<Nested>>, b) : b \in LineBodies}

\* ------------------------------------- the parser: parse, dump, parse
InitParser ==
  /\ AlgebraIdle
  /\ aliases = EmptyDict
  /\ text \in Documents
  /\ step = "start"
  /\ hoa_obj_1 = Return(None)
  /\ temp = Return(None)
  /\ hoa_obj_2 = Return(None)

\* hoa_obj_1 = parser(text)
Parse ==
  /\ step = "start"
  /\ LET r == transform(text, aliases)
     IN /\ hoa_obj_1' = r.out
        /\ aliases' = r.aliases
  /\ step' = "parsed"
  /\ UNCHANGED <<text, temp, hoa_obj_2>>
  /\ UNCHANGED algebraVars

\* hoa_obj_1.dump(temp)
Dump ==
  /\ step = "parsed"
  /\ hoa_obj_1.exc = "ok"
  /\ temp' = dumps(hoa_obj_1.val)
  /\ step' = "dumped"
  /\ UNCHANGED <<aliases, text, hoa_obj_1, hoa_obj_2>>
  /\ UNCHANGED algebraVars

\* hoa_obj_2 = parser(temp)
Reparse ==
  /\ step = "dumped"
  /\ temp.exc = "ok"
  /\ LET r == transform(temp.val, aliases)
     IN /\ hoa_obj_2' = r.out
        /\ aliases' = r.aliases
  /\ step' = "reparsed"
  /\ UNCHANGED <<text, hoa_obj_1, temp>>
  /\ UNCHANGED algebraVars

NextParser == Parse \/ Dump \/ Reparse

SpecParser == InitParser /\ [][NextParser]_vars

\* ------------------------------------------------ the algebra: claims
\* the formulas that exist in a state: the one held and the one returned
Existing ==
  {x} \cup (IF call.op # "none" /\ call.out.exc = "ok" THEN {call.out.val} ELSE {})

\* the first occurrence of each element, in the order of the occurrences
FirstOccurrences(s) ==
  LET keep == {i \in 1..Len(s) : \A j \in 1..(i - 1) : s[j] # s[i]}
      RECURSIVE pick(_)
      pick(i) == IF i > Len(s) THEN <<>>
                 ELSE IF i \in keep THEN <<s[i]>> \o pick(i + 1)
                 ELSE pick(i + 1)
  IN pick(1)

\* the operands of f spliced in place of f when f is a node of class cls
RECURSIVE Spliced(_, _)
Spliced(cls, s) ==
  IF s = <<>> THEN <<>>
  ELSE (IF Head(s).tag = cls THEN Spliced(cls, Head(s).operands) ELSE <<Head(s)>>)
       \o Spliced(cls, Tail(s))

\* the operator's identity element: the literal that is not absorbing
identity(cls) == IF absorbing(cls) = FalseFormula THEN TrueFormula ELSE FalseFormula

NodeInNormalForm(f) ==
  f.tag \in MonotoneClasses =>
    /\ Len(f.operands) >= 2
    /\ \A i \in 1..Len(f.operands) : f.operands[i].tag # f.tag
    /\ \A i, j \in 1..Len(f.operands) : i # j => f.operands[i] # f.operands[j]
    /\ absorbing(f.tag) \notin Range(f.operands)

RECURSIVE NormalForm(_)
NormalForm(f) ==
  /\ NodeInNormalForm(f)
  /\ f.tag \in MonotoneClasses => \A i \in 1..Len(f.operands) : NormalForm(f.operands[i])
  /\ f.tag = "_Not" => NormalForm(f.argument)

\* C2: every And/Or node that exists after any sequence of constructor calls
\* has at least 2 operands, no direct operand of its own operator, no two
\* equal operands and does not contain the absorbing element.
C2_NormalFormInvariant == \A f \in Existing : NormalForm(f)

\* C3: a constructor called with an operand list that contains the
\* operator's absorbing element returns the absorbing element.
C3_Absorption ==
  (call.op \in MonotoneClasses /\ absorbing(call.op) \in Range(call.args))
    => call.out = Return(absorbing(call.op))

\* C4: and(and(a,b), c) == and(a, b, c) for any formulas a, b, c: a call on
\* a node and(a,b) of the same operator and a formula c has the outcome of
\* the call on a, b, c; and the operand tuple of a constructed node is the
\* left-to-right depth-first splice of the operands that are nodes of the
\* same operator.
C4_Flattening ==
  call.op \in MonotoneClasses =>
    /\ (Len(call.args) = 2 /\ call.args[1].tag = call.op)
         => call.out = MonotoneOp_call(call.op, call.args[1].operands \o <<call.args[2]>>)
    /\ (call.out.exc = "ok" /\ Len(FirstOccurrences(call.args)) >= 2)
         => call.out.val = BinaryOp(call.op, Spliced(call.op, FirstOccurrences(call.args)))

\* C5: the input operands are deduplicated by structural equality, keeping
\* the first occurrence of each and the order of the kept operands: the call
\* has the outcome of the call on the first occurrences, and when nothing is
\* spliced or absorbed the node's operands are the first occurrences.
C5_Deduplication ==
  call.op \in MonotoneClasses =>
    LET first == FirstOccurrences(call.args)
    IN /\ call.out = MonotoneOp_call(call.op, first)
       /\ (/\ Len(first) >= 2
           /\ absorbing(call.op) \notin Range(first)
           /\ \A i \in 1..Len(first) : first[i].tag # call.op)
            => call.out = Return(BinaryOp(call.op, first))

\* and(b, a, b) was called and returned the node and(b, a)
C5_Witness ==
  /\ call.op \in MonotoneClasses
  /\ Len(call.args) = 3
  /\ call.args[1] = call.args[3]
  /\ call.args[1] # call.args[2]
  /\ call.out = Return(BinaryOp(call.op, <<call.args[1], call.args[2]>>))

\* C6: a constructor called with no operands returns the identity literal:
\* True for And, False for Or, in both algebras.
C6_EmptyOperands ==
  (call.op \in MonotoneClasses /\ call.args = <<>>)
    => call.out = Return(identity(call.op))

\* C7: ~ applied to the literal True returns False, applied to False returns
\* True, and applied to any other label formula returns a Not node over it.
C7_NegationOfLiterals ==
  call.op = "~" =>
    /\ call.args[1] = TrueFormula => call.out = Return(FalseFormula)
    /\ call.args[1] = FalseFormula => call.out = Return(TrueFormula)
    /\ (alg = "label" /\ call.args[1] \notin Literals)
         => call.out = Return(UnaryOp("_Not", call.args[1]))

\* C8: a constructor called with a single operand f, or with several
\* operands all equal to f, returns f itself and no node around it.
C8_SingleOperand ==
  (call.op \in MonotoneClasses /\ Cardinality(Range(call.args)) = 1)
    => call.out = Return(call.args[1])

\* and(f, f) was called with f a node of two operands and returned f
C8_Witness ==
  /\ call.op \in MonotoneClasses
  /\ Len(call.args) = 2
  /\ call.args[1] = call.args[2]
  /\ call.args[1].tag \in MonotoneClasses
  /\ call.out = Return(call.args[1])

\* C9: the constructors and the operators & and | return a formula and
\* never raise, for any operands of the same algebra in any position.
C9_Totality ==
  call.op \in (MonotoneClasses \cup {"&", "|"}) => call.out.exc = "ok"

\* ------------------------------------------------- the parser: claims
\* the count declared on the Acceptance line of a document
DeclaredCount(doc) ==
  LET i == CHOOSE i \in 1..Len(doc.header) : doc.header[i].rule = "acceptance"
  IN doc.header[i].int

\* C10: in every document the parser accepts, the accepting sets of the
\* condition are exactly 0 .. n-1 for the count n declared on the Acceptance
\* line; a line with a gap, an extra index or another count is not accepted.
C10_AcceptingSetSoundness ==
  (step # "start" /\ hoa_obj_1.exc = "ok")
    => accepting_sets(hoa_obj_1.val.header.acceptance.condition)
         = 0..(DeclaredCount(text) - 1)

\* a document declaring 2 sets with a condition of two operands is accepted
C10_Witness ==
  /\ step = "parsed"
  /\ hoa_obj_1.exc = "ok"
  /\ DeclaredCount(text) = 2
  /\ hoa_obj_1.val.header.acceptance.condition.tag \in PositiveClasses

\* C1: parsing the text printed for a parsed document returns an automaton
\* equal to the parsed one.
C1_RoundTrip ==
  /\ step = "dumped" => temp.exc = "ok"
  /\ step = "reparsed" => (hoa_obj_2.exc = "ok" /\ HOA_eq(hoa_obj_2.val, hoa_obj_1.val))

\* ------------------------------------------- the documents: their lines
\* the set indices written in the text of an acceptance condition
RECURSIVE WrittenSets(_)
WrittenSets(tree) ==
  CASE tree.rule = "boolean_acceptance_cond" -> {}
    [] tree.rule \in {"atom_acceptance_cond", "not_acceptance_cond"} -> {tree.int}
    [] OTHER -> UNION {WrittenSets(tree.args[i]) : i \in 1..Len(tree.args)}

\* the document is one Acceptance line and an empty body
AcceptanceOnly(doc) ==
  /\ Len(doc.header) = 1
  /\ doc.header[1].rule = "acceptance"
  /\ doc.body = <<>>

\* C11: an Acceptance line whose formula is built and has the computed set
\* 0 .. n-1 for the declared count n is accepted, for every n >= 0; with
\* n = 0 and the condition t or f both sets are empty.
C11_ConsistentLineAccepted ==
  (step # "start" /\ AcceptanceOnly(text))
    => LET c == acceptance_cond(text.header[1].cond)
       IN (c.exc = "ok" /\ accepting_sets(c.val) = 0..(text.header[1].int - 1))
            => hoa_obj_1.exc = "ok"

\* --------------------------- the parser: several calls of one HOAParser
\* the Alias lines of the documents of a session
SessionLines ==
  { [rule |-> "alias", aname |-> "@a", label |-> atom(0)],
    [rule |-> "alias", aname |-> "@a", label |-> atom(1)],
    [rule |-> "alias", aname |-> "@b",
     label |-> [rule |-> "and_label_expr",
                args |-> <<aname("@a"), [rule |-> "not_label_expr", args |-> <<atom(1)>>]>>]],
    [rule |-> "alias", aname |-> "@b", label |-> aname("@a")] }

\* State: 0 / [n] 0
LabelledEdge(n) ==
  << [rule |-> "state_name", olabel |-> Nothing, int |-> 0, ochars |-> Nothing,
      oacc_sig |-> Nothing],
     [rule |-> "edge", olabel |-> Just(aname(n)), state_conj |-> <<0>>,
      oacc_sig |-> Nothing] >>

SessionBodies == {<<>>, LabelledEdge("@a"), LabelledEdge("@b")}

SessionDocuments ==
  {Document(h \o <<Buchi>>, b) :
     h \in SeqsUpTo(SessionLines, MaxHeaderItems), b \in SessionBodies}

\* parser = HOAParser()
InitSession ==
  /\ AlgebraIdle
  /\ aliases = EmptyDict
  /\ text = NoDocument
  /\ step = "new"
  /\ hoa_obj_1 = Return(None)
  /\ temp = Return(None)
  /\ hoa_obj_2 = Return(None)

\* hoa_obj_1 = parser(text), the first call of the parser or a later one
ParseCall ==
  /\ step \in {"new", "parsed"}
  /\ \E doc \in SessionDocuments :
       LET r == transform(doc, aliases)
       IN /\ text' = doc
          /\ hoa_obj_1' = r.out
          /\ aliases' = r.aliases
  /\ step' = "parsed"
  /\ UNCHANGED <<temp, hoa_obj_2>>
  /\ UNCHANGED algebraVars

NextSession == ParseCall

SpecSession == InitSession /\ [][NextSession]_vars

\* hoa_obj_1 is the outcome of parsing text
Parsed == step \in {"parsed", "dumped", "reparsed"}

\* the alias names referenced in the text of a label expression
RECURSIVE AliasRefs(_)
AliasRefs(tree) ==
  CASE tree.rule = "alias_label_expr" -> {tree.aname}
    [] tree.rule \in {"boolean_label_expr", "atom_label_expr"} -> {}
    [] OTHER -> UNION {AliasRefs(tree.args[i]) : i \in 1..Len(tree.args)}

\* the header lines of a document that are Alias lines, before line i
AliasLinesBefore(doc, i) == {j \in 1..(i - 1) : doc.header[j].rule = "alias"}

\* the names bound by the Alias lines of a document
BoundNames(doc) ==
  {doc.header[j].aname : j \in AliasLinesBefore(doc, Len(doc.header) + 1)}

\* a label of the document references a name that no earlier Alias line of
\* the same document binds
UndefinedReference(doc) ==
  \/ \E i \in 1..Len(doc.header) :
       /\ doc.header[i].rule = "alias"
       /\ \E n \in AliasRefs(doc.header[i].label) :
            \A j \in AliasLinesBefore(doc, i) : doc.header[j].aname # n
  \/ \E i \in 1..Len(doc.body) :
       /\ doc.body[i].olabel # Nothing
       /\ \E n \in AliasRefs(doc.body[i].olabel[1]) : n \notin BoundNames(doc)

\* the LabelAlias values that occur in a label formula
RECURSIVE AliasesIn(_)
AliasesIn(f) ==
  CASE f.tag = "LabelAlias" -> {f} \cup AliasesIn(f.expression)
    [] f.tag \in MonotoneClasses -> UNION {AliasesIn(f.operands[i]) : i \in 1..Len(f.operands)}
    [] f.tag = "_Not" -> AliasesIn(f.argument)
    [] OTHER -> {}

\* the LabelAlias values that occur in the labels of the body of an automaton
BodyAliases(hoa) ==
  UNION {(IF hoa.body[i].state.label = Nothing THEN {}
          ELSE AliasesIn(hoa.body[i].state.label[1]))
         \cup UNION {(IF hoa.body[i].edges[j].label = Nothing THEN {}
                      ELSE AliasesIn(hoa.body[i].edges[j].label[1]))
                     : j \in 1..Len(hoa.body[i].edges)}
         : i \in 1..Len(hoa.body)}

\* the LabelAlias values declared in the header of an automaton
HeaderAliases(hoa) ==
  IF hoa.header.aliases = Nothing THEN {} ELSE Range(hoa.header.aliases[1])

\* C12: after any sequence of calls of one parser the alias table holds only
\* names bound by Alias lines of the document of the last call, and the
\* aliases in the labels of an accepted document are aliases declared in
\* that document, never the expression of an earlier document.
C12_AliasTableScope ==
  Parsed =>
    /\ DOMAIN aliases \subseteq BoundNames(text)
    /\ hoa_obj_1.exc = "ok" => BodyAliases(hoa_obj_1.val) \subseteq HeaderAliases(hoa_obj_1.val)

\* C13: a document with a label that references an alias name bound by no
\* earlier Alias line of the same document is rejected: the parse ends with
\* an error and returns no automaton.
C13_UndefinedAlias ==
  (Parsed /\ UndefinedReference(text)) => hoa_obj_1.exc # "ok"

\* an Alias line of the document binds a name that an earlier Alias line of
\* the same document binds
DuplicateAlias(doc) ==
  \E i \in 1..Len(doc.header) :
    /\ doc.header[i].rule = "alias"
    /\ \E j \in AliasLinesBefore(doc, i) : doc.header[j].aname = doc.header[i].aname

\* C14: a document with two Alias lines that bind the same name is rejected,
\* whatever the two expressions, and the aliases in the header of an
\* accepted document have pairwise distinct names.
C14_DuplicateAlias ==
  Parsed =>
    /\ DuplicateAlias(text) => hoa_obj_1.exc # "ok"
    /\ hoa_obj_1.exc = "ok" =>
         \A a, b \in HeaderAliases(hoa_obj_1.val) : a.alias = b.alias => a = b

\* the header lines that may occur once: States, Acceptance, tool, name
SingularRules == {"num_states", "acceptance", "tool", "name"}

\* one of the singular header lines occurs twice in the document
DuplicateSingular(doc) ==
  \E i, j \in 1..Len(doc.header) :
    /\ i < j
    /\ doc.header[i].rule \in SingularRules
    /\ doc.header[i].rule = doc.header[j].rule

\* C15: a document in which one of States, Acceptance, tool, name occurs
\* more than once is rejected: the parse ends with an error and returns no
\* automaton, so that no later value replaces the first one.
C15_DuplicateSingularHeader ==
  (Parsed /\ DuplicateSingular(text)) => hoa_obj_1.exc # "ok"

\* a document with the same States line twice before its Acceptance line
\* was parsed and rejected with the assertion of 'header'
C15_Witness ==
  /\ step = "parsed"
  /\ Len(text.header) = 3
  /\ text.header[1].rule = "num_states"
  /\ text.header[2].rule = "num_states"
  /\ hoa_obj_1.exc = "AssertionError"

\* the AP lines of a document
APLines(doc) == {i \in 1..Len(doc.header) : doc.header[i].rule = "propositions"}

\* the declared count is the number of names and no name occurs twice
ValidAP(line) ==
  /\ line.int = Len(line.strings)
  /\ \A i, j \in 1..Len(line.strings) : i # j => line.strings[i] # line.strings[j]

\* a quoted name without its first and last character
Unquoted(s) == [i \in 1..(Len(s) - 2) |-> s[i + 1]]

\* C16: a document with an AP line whose count differs from the number of
\* names, or with a name twice, is rejected; the propositions of an accepted
\* document are the names of its AP line in file order without the quotes.
C16_APValidation ==
  Parsed =>
    /\ (\E i \in APLines(text) : ~ValidAP(text.header[i])) => hoa_obj_1.exc # "ok"
    /\ hoa_obj_1.exc = "ok" =>
         \A i \in APLines(text) :
           hoa_obj_1.val.header.propositions
             = Just([k \in 1..Len(text.header[i].strings) |->
                       Unquoted(text.header[i].strings[k])])

\* a document declaring the two propositions "a" and "b" was accepted
C16_Witness ==
  /\ step = "parsed"
  /\ hoa_obj_1.exc = "ok"
  /\ \E i \in APLines(text) : Len(text.header[i].strings) = 2
  /\ hoa_obj_1.val.header.propositions = Just(<<<<"a">>, <<"b">>>>)

\* the six semantic violations
Kinds ==
  {"duplicate header", "duplicate alias", "undefined alias", "proposition count",
   "duplicate proposition", "acceptance set mismatch"}

\* the violations of a document, read from its text
Violations(doc) ==
  {k \in Kinds :
     CASE k = "duplicate header" -> DuplicateSingular(doc)
       [] k = "duplicate alias" -> DuplicateAlias(doc)
       [] k = "undefined alias" -> UndefinedReference(doc)
       [] k = "proposition count" ->
            \E i \in APLines(doc) : doc.header[i].int # Len(doc.header[i].strings)
       [] k = "duplicate proposition" ->
            \E i \in APLines(doc) :
              Cardinality(Range(doc.header[i].strings)) # Len(doc.header[i].strings)
       [] OTHER ->
            \E i \in 1..Len(doc.header) :
              /\ doc.header[i].rule = "acceptance"
              /\ WrittenSets(doc.header[i].cond) # 0..(doc.header[i].int - 1)}

\* one document for each violation, with that violation only
Canonical ==
  [k \in Kinds |->
     CASE k = "duplicate header" ->
            Document(<<[rule |-> "num_states", int |-> 2],
                       [rule |-> "num_states", int |-> 2], Buchi>>, <<>>)
       [] k = "duplicate alias" ->
            Document(<<[rule |-> "alias", aname |-> "@a", label |-> atom(0)],
                       [rule |-> "alias", aname |-> "@a", label |-> atom(0)], Buchi>>, <<>>)
       [] k = "undefined alias" -> Document(<<Buchi>>, LabelledEdge("@a"))
       [] k = "proposition count" ->
            Document(<<[rule |-> "propositions", int |-> 1,
                        strings |-> <<<<Q, "a", Q>>, <<Q, "b", Q>>>>], Buchi>>, <<>>)
       [] k = "duplicate proposition" ->
            Document(<<[rule |-> "propositions", int |-> 2,
                        strings |-> <<<<Q, "a", Q>>, <<Q, "a", Q>>>>], Buchi>>, <<>>)
       [] OTHER ->
            Document(<<[rule |-> "acceptance", int |-> 2,
                        cond |-> [rule |-> "atom_acceptance_cond", kind |-> "Inf",
                                  int |-> 0]]>>, <<>>)]

\* what a new parser reports for the document of each violation
Reported == [k \in Kinds |-> transform(Canonical[k], EmptyDict).out.exc]

\* C17: the outcome of a document with one of the six violations is an
\* error, and it is not the outcome reported for any of the other five
\* violations: the error tells which invariant was violated.
C17_DistinctErrorVariants ==
  (Parsed /\ Cardinality(Violations(text)) = 1) =>
    /\ hoa_obj_1.exc # "ok"
    /\ \A k \in Kinds \ Violations(text) : hoa_obj_1.exc # Reported[k]

\* ------------------------------------- the acceptance algebra: claims
\* a Not node occurs in the formula
RECURSIVE HasNot(_)
HasNot(f) ==
  CASE f.tag = "_Not" -> TRUE
    [] f.tag \in MonotoneClasses -> \E i \in 1..Len(f.operands) : HasNot(f.operands[i])
    [] OTHER -> FALSE

\* C18: no acceptance formula built with &, | and ~ from acceptance atoms
\* contains a Not node, ~ on a PositiveAnd or PositiveOr node included; ~ on
\* an atom returns the atom of the same kind and set index with the negated
\* flag toggled.
C18_NoNotNode ==
  alg = "acceptance" =>
    /\ \A f \in Existing : ~HasNot(f)
    /\ (call.op = "~" /\ call.args[1].tag = "AcceptanceAtom")
         => call.out = Return(AcceptanceAtom(call.args[1].atom_type,
                                             call.args[1].acceptance_set,
                                             ~call.args[1].negated))

\* ------------------------------------------- the folds over formulas
\* the atoms and literals of an algebra; a LabelAlias is built by the caller
\* with an expression or with None
FoldLeaves(a) ==
  IF a = "label"
    THEN Leaves("label") \cup {LabelAlias("@a", None), LabelAlias("@b", LabelAtom(0))}
    ELSE {AcceptanceAtom(t, k, n) : t \in AtomType, k \in 0..MaxAccSet, n \in BOOLEAN}
         \cup Literals

\* the values of the calls that returned
Returned(outs) == {o.val : o \in {c \in outs : c.exc = "ok"}}

\* the formulas handed to a fold: the leaves, the nodes the constructors
\* return for two of them, and what ~ returns for these
FoldInputs(a) ==
  LET nodes == Returned({MonotoneOp_call(cls, <<l, r>>) :
                           cls \in Classes(a), l \in FoldLeaves(a), r \in FoldLeaves(a)})
  IN FoldLeaves(a) \cup nodes \cup Returned({invert(f) : f \in FoldLeaves(a) \cup nodes})
       \cup (IF a = "label" THEN {}
             ELSE Returned({or_(Fin(0), g) :
                              g \in Returned({and_(Fin(0), AcceptanceAtom(INFINITE, 1, TRUE))})}))

InitFolds ==
  /\ alg \in {"label", "acceptance"}
  /\ x \in FoldInputs(alg)
  /\ pc = "idle"
  /\ call = NoCall
  /\ ParserIdle

\* propositions(x)
CallPropositions ==
  /\ pc = "idle"
  /\ alg = "label"
  /\ Finish("propositions", <<x>>, Return(label_propositions(x)))

\* accepting_sets(x)
CallAcceptingSets ==
  /\ pc = "idle"
  /\ alg = "acceptance"
  /\ Finish("accepting_sets", <<x>>, Return(accepting_sets(x)))

\* nb_accepting_sets(x)
CallNbAcceptingSets ==
  /\ pc = "idle"
  /\ alg = "acceptance"
  /\ Finish("nb_accepting_sets", <<x>>, Return(nb_accepting_sets(x)))

\* acceptance_condition_to_string(x)
CallAcceptanceConditionToString ==
  /\ pc = "idle"
  /\ alg = "acceptance"
  /\ Finish("acceptance_condition_to_string", <<x>>, Return(acceptance_condition_chars(x)))

\* label_expression_to_string(x)
CallLabelExpressionToString ==
  /\ pc = "idle"
  /\ alg = "label"
  /\ Finish("label_expression_to_string", <<x>>, Return(label_expression_chars(x)))

NextFolds ==
  \/ CallPropositions
  \/ CallAcceptingSets
  \/ CallNbAcceptingSets
  \/ CallAcceptanceConditionToString
  \/ CallLabelExpressionToString

SpecFolds == InitFolds /\ [][NextFolds]_vars

\* a LabelAlias with no expression occurs in the formula, at any depth
RECURSIVE HasDangling(_)
HasDangling(f) ==
  CASE f.tag = "LabelAlias" -> f.expression = None \/ HasDangling(f.expression)
    [] f.tag \in MonotoneClasses -> \E i \in 1..Len(f.operands) : HasDangling(f.operands[i])
    [] f.tag = "_Not" -> HasDangling(f.argument)
    [] OTHER -> FALSE

\* C19: propositions(f) fails, and returns no set, whenever f contains at
\* any depth a LabelAlias that was built with no expression.
C19_DanglingAlias ==
  (call.op = "propositions" /\ HasDangling(call.args[1])) => call.out.exc # "ok"

\* the formula and the formulas that occur in it
RECURSIVE Subformulas(_)
Subformulas(f) ==
  {f} \cup
    (CASE f.tag \in MonotoneClasses ->
            UNION {Subformulas(f.operands[i]) : i \in 1..Len(f.operands)}
       [] f.tag = "_Not" -> Subformulas(f.argument)
       [] OTHER -> {})

\* the set indices of the acceptance atoms that occur in the formula
AtomIndices(f) ==
  {g.acceptance_set : g \in {h \in Subformulas(f) : h.tag = "AcceptanceAtom"}}

\* C20: accepting_sets(f) is the set of the set indices of all acceptance
\* atoms occurring anywhere in f, whatever their kind and negated flag (the
\* empty set for True and False), and nb_accepting_sets(f) is its cardinality.
C20_AcceptingSets ==
  /\ call.op = "accepting_sets" => call.out = Return(AtomIndices(call.args[1]))
  /\ call.op = "nb_accepting_sets"
       => call.out = Return(Cardinality(AtomIndices(call.args[1])))

\* accepting_sets was called on a node of two atoms of different kinds, the
\* second one negated, and returned their two set indices
C20_Witness ==
  /\ call.op = "accepting_sets"
  /\ call.args[1].tag \in PositiveClasses
  /\ \A i \in 1..Len(call.args[1].operands) : call.args[1].operands[i].tag = "AcceptanceAtom"
  /\ call.args[1].operands[1].atom_type # call.args[1].operands[2].atom_type
  /\ call.args[1].operands[2].negated
  /\ call.out = Return({0, 1})

\* the label atoms that occur in the formula, those of the expression of an
\* alias included
RECURSIVE LabelAtomsIn(_)
LabelAtomsIn(f) ==
  CASE f.tag = "LabelAtom" -> {f}
    [] f.tag = "LabelAlias" -> IF f.expression = None THEN {} ELSE LabelAtomsIn(f.expression)
    [] f.tag \in MonotoneClasses -> UNION {LabelAtomsIn(f.operands[i]) : i \in 1..Len(f.operands)}
    [] f.tag = "_Not" -> LabelAtomsIn(f.argument)
    [] OTHER -> {}

\* C21: propositions(f) is the set of the proposition indices of all label
\* atoms occurring in f, an alias contributing the atoms of its expression;
\* an alias bound to the atom 0 has the propositions of the atom 0.
C21_Propositions ==
  (call.op = "propositions" /\ ~HasDangling(call.args[1]))
    => /\ call.out = Return({a.proposition : a \in LabelAtomsIn(call.args[1])})
       /\ call.args[1] = LabelAlias("@b", LabelAtom(0))
            => call.out = Return(label_propositions(LabelAtom(0)))

\* propositions was called on a node with the atom 1 and the alias bound to
\* the atom 0 and returned {0, 1}
C21_Witness ==
  /\ call.op = "propositions"
  /\ call.args[1].tag \in LabelClasses
  /\ LabelAlias("@b", LabelAtom(0)) \in Range(call.args[1].operands)
  /\ LabelAtom(1) \in Range(call.args[1].operands)
  /\ call.out = Return({0, 1})

\* ------------------------------------------------ the printer: claims
\* the place of a header line in the fixed order
HeaderRank(rule) ==
  CASE rule = "num_states" -> 1
    [] rule = "start_state" -> 2
    [] rule = "propositions" -> 3
    [] rule = "alias" -> 4
    [] rule = "acceptance" -> 5
    [] rule = "acc_name" -> 6
    [] rule = "tool" -> 7
    [] rule = "name" -> 8
    [] rule = "properties" -> 9
    [] OTHER -> 10

\* the lines of a printed header that are of one kind, in printed order
LinesOf(lines, rule) == SelectSeq(lines, LAMBDA l : l.rule = rule)

\* 1 when the condition holds, 0 otherwise
Count(b) == IF b THEN 1 ELSE 0

\* C22: the header lines printed for an automaton are in the fixed order
\* States, Start, AP, Alias, Acceptance, acc-name, tool, name, properties,
\* custom headers; one line for each field that is present (one Start line
\* per conjunction, one Alias line per alias in list order, the Acceptance
\* count recomputed from the formula, the custom headers in insertion
\* order) and no line for an absent field.
C22_FixedHeaderOrder ==
  step \in {"dumped", "reparsed"} =>
    /\ temp.exc = "ok"
    /\ LET h == hoa_obj_1.val.header
           out == temp.val.header
       IN /\ temp.val.format_version = h.format_version
          /\ \A i, j \in 1..Len(out) : i < j => HeaderRank(out[i].rule) <= HeaderRank(out[j].rule)
          /\ Len(LinesOf(out, "num_states")) = Count(h.nb_states # Nothing)
          /\ Len(LinesOf(out, "start_state"))
               = (IF h.start_states = Nothing THEN 0 ELSE Cardinality(h.start_states[1]))
          /\ Len(LinesOf(out, "propositions"))
               = Count(h.propositions # Nothing /\ h.propositions # Just(<<>>))
          /\ LET al == LinesOf(out, "alias")
             IN [i \in 1..Len(al) |-> al[i].aname]
                  = (IF h.aliases = Nothing THEN <<>>
                     ELSE [i \in 1..Len(h.aliases[1]) |-> h.aliases[1][i].alias])
          /\ LET ac == LinesOf(out, "acceptance")
             IN /\ Len(ac) = 1
                /\ ac[1].int = Cardinality(accepting_sets(h.acceptance.condition))
          /\ Len(LinesOf(out, "acc_name")) = Count(h.acceptance.name # Nothing)
          /\ Len(LinesOf(out, "tool")) = Count(h.tool # Nothing)
          /\ Len(LinesOf(out, "name")) = Count(h.name # Nothing)
          /\ Len(LinesOf(out, "properties"))
               = Count(h.properties # Nothing /\ h.properties # Just(<<>>))
          /\ LET cu == LinesOf(out, "headername")
             IN [i \in 1..Len(cu) |-> cu[i].key]
                  = (IF h.headernames = Nothing THEN <<>>
                     ELSE [i \in 1..Len(h.headernames[1]) |-> h.headernames[1][i].key])

\* an automaton with a name and a state count was printed: the States line
\* comes first, the Acceptance line next, the name line last
C22_Witness ==
  /\ step = "dumped"
  /\ temp.exc = "ok"
  /\ Len(temp.val.header) = 3
  /\ temp.val.header[1].rule = "num_states"
  /\ temp.val.header[2].rule = "acceptance"
  /\ temp.val.header[3].rule = "name"

\* the text the printing rules give for a formula: atoms 'Fin(k)', 'Inf(k)'
\* with '!' before k when negated, a proposition index, an alias name;
\* And/Or in parentheses joined by ' & ' / ' | '; Not as '(!x)'; 't', 'f'
RECURSIVE PrintedForm(_)
PrintedForm(f) ==
  CASE f.tag = "AcceptanceAtom" ->
         (IF f.atom_type = FINITE THEN <<"F", "i", "n">> ELSE <<"I", "n", "f">>)
           \o (IF f.negated THEN <<"(", "!">> ELSE <<"(">>)
           \o str_int(f.acceptance_set) \o <<")">>
    [] f.tag = "LabelAtom" -> str_int(f.proposition)
    [] f.tag = "LabelAlias" -> <<f.alias>>
    [] f.tag \in MonotoneClasses ->
         <<"(">>
           \o join(IF f.tag \in {"_And", "_PositiveAnd"} THEN <<" ", "&", " ">>
                   ELSE <<" ", "|", " ">>,
                   [i \in 1..Len(f.operands) |-> PrintedForm(f.operands[i])])
           \o <<")">>
    [] f.tag = "_Not" -> <<"(", "!">> \o PrintedForm(f.argument) \o <<")">>
    [] f.tag = "TrueFormula" -> <<"t">>
    [] OTHER -> <<"f">>

\* C23: a formula prints by the printing rules: atoms as 'Fin(k)'/'Inf(k)'
\* with '!' before k when negated, label atoms as their index, aliases as
\* their name, And/Or as a parenthesized list joined by ' & '/' | ', Not as
\* '(!x)', True/False as 't'/'f'; Fin(0) | (Fin(0) & NotInf(1)) prints as
\* '(Fin(0) | (Fin(0) & Inf(!1)))'.
C23_FormulaPrinting ==
  call.op \in {"acceptance_condition_to_string", "label_expression_to_string"}
    => call.out = Return(PrintedForm(call.args[1]))

\* C23, the formulas without a Not node in the acceptance algebra: these
\* print by the printing rules, the example among them.
C23_PrintingWithoutAcceptanceNot ==
  /\ (call.op = "label_expression_to_string"
        \/ (call.op = "acceptance_condition_to_string" /\ ~HasNot(call.args[1])))
       => call.out = Return(PrintedForm(call.args[1]))
  /\ (call.op = "acceptance_condition_to_string"
        /\ call.args[1] = BinaryOp("_PositiveOr",
                                   <<Fin(0), BinaryOp("_PositiveAnd",
                                                      <<Fin(0), AcceptanceAtom(INFINITE, 1, TRUE)>>)>>))
       => call.out = Return(<<"(", "F", "i", "n", "(", "0", ")", " ", "|", " ",
                              "(", "F", "i", "n", "(", "0", ")", " ", "&", " ",
                              "I", "n", "f", "(", "!", "1", ")", ")", ")">>)

\* the example formula was printed
C23_Witness ==
  /\ call.op = "acceptance_condition_to_string"
  /\ call.args[1].tag = "_PositiveOr"
  /\ Len(call.args[1].operands) = 2
  /\ call.args[1].operands[2].tag = "_PositiveAnd"
  /\ call.out.exc = "ok"
  /\ Len(call.out.val) = 29

\* the document is the one line 'Acceptance: 1 Fin(!0)' or 'Acceptance: 1 Inf(!0)'
NegatedAtomLine(doc) ==
  /\ AcceptanceOnly(doc)
  /\ doc.header[1].int = 1
  /\ doc.header[1].cond.rule = "not_acceptance_cond"
  /\ doc.header[1].cond.int = 0

\* C24: parsing 'Fin(!k)' / 'Inf(!k)' yields the atom of that kind with set
\* index k and the negated flag set, equal to NotFin(k) / NotInf(k), and an
\* Acceptance line with such an atom is validated and printed like any
\* other: the line 'Acceptance: 1 Inf(!0)' is accepted and printed back.
C24_NegatedAtomParsed ==
  (step # "start" /\ NegatedAtomLine(text))
    => /\ hoa_obj_1.exc = "ok"
       /\ hoa_obj_1.val.header.acceptance.condition
            = AcceptanceAtom(AtomType_of(text.header[1].cond.kind), 0, TRUE)
       /\ step # "parsed" => temp = Return(text)

\* --------------------------------------------------- the body: claims
\* the lines of a body in groups: a State line and the Edge lines up to the
\* next State line
RECURSIVE Grouped(_)
Grouped(b) ==
  IF b = <<>> THEN <<>>
  ELSE IF Last(b).rule = "state_name"
    THEN Append(Grouped(Front(b)), [line |-> Last(b), edges |-> <<>>])
  ELSE [Grouped(Front(b)) EXCEPT ![Len(Grouped(Front(b)))].edges = Append(@, Last(b))]

\* the set of marks written in an optional brace group
Marks(oacc_sig) == IF oacc_sig = Nothing THEN Nothing ELSE Just(Range(oacc_sig[1]))

\* no two State lines of the body have the same index
DistinctIndices(b) ==
  \A i, j \in 1..Len(b) :
    (i # j /\ b[i].rule = "state_name" /\ b[j].rule = "state_name") => b[i].int # b[j].int

\* the document was accepted
Accepted == step # "start" /\ hoa_obj_1.exc = "ok"

\* C25: a State line with the brace group m1 ... mk yields a State whose
\* acceptance signature is exactly {m1, ..., mk}, as an Edge line with that
\* brace group yields an Edge with that set; no listed mark is dropped.
C25_StateAcceptanceSignature ==
  (Accepted /\ DistinctIndices(text.body))
    => LET g == Grouped(text.body)
           m == hoa_obj_1.val.body
       IN /\ Len(m) = Len(g)
          /\ \A j \in 1..Len(g) :
               /\ m[j].state.acc_sig = Marks(g[j].line.oacc_sig)
               /\ Len(m[j].edges) = Len(g[j].edges)
               /\ \A k \in 1..Len(g[j].edges) :
                    m[j].edges[k].acc_sig = Marks(g[j].edges[k].oacc_sig)

\* C26: the keys of the body map, in insertion order, are the State lines
\* in file order, and the edge list of each state is the Edge lines between
\* its State line and the next one (or the end), in file order; every Edge
\* line is in exactly one edge list, also when two State lines are equal.
C26_BodyKeepsEveryEdge ==
  Accepted
    => LET g == Grouped(text.body)
           m == hoa_obj_1.val.body
       IN /\ Len(m) = Len(g)
          /\ \A j \in 1..Len(g) :
               /\ m[j].state.index = g[j].line.int
               /\ Len(m[j].edges) = Len(g[j].edges)
               /\ \A k \in 1..Len(g[j].edges) :
                    m[j].edges[k].state_conj = g[j].edges[k].state_conj

\* C28: in the body of an accepted document no two distinct State keys
\* have the same index.
C28_StateIndexUnique ==
  Accepted
    => \A i, j \in 1..Len(hoa_obj_1.val.body) :
         i # j => hoa_obj_1.val.body[i].state.index # hoa_obj_1.val.body[j].state.index

\* C27: for a parsed header with a tool field, the printed document has one
\* tool line that holds the tool value as it was parsed, and parsing the
\* printed document yields a header with an equal tool field.
C27_ToolPrinting ==
  (Accepted /\ hoa_obj_1.val.header.tool # Nothing)
    => /\ step \in {"dumped", "reparsed"}
         => /\ temp.exc = "ok"
            /\ Len(LinesOf(temp.val.header, "tool")) = 1
            /\ join(<<" ">>, LinesOf(temp.val.header, "tool")[1].strings)
                 = hoa_obj_1.val.header.tool[1]
       /\ step = "reparsed"
         => /\ hoa_obj_2.exc = "ok"
            /\ hoa_obj_2.val.header.tool = hoa_obj_1.val.header.tool

\* C29: the outcome of parsing a text depends only on the text: after any
\* history of earlier calls of the same parser, rejected documents included,
\* the outcome is the one of a parser that has made no call before.
C29_ParseDeterminism ==
  Parsed => hoa_obj_1 = transform(text, EmptyDict).out

\* ------------------------------------ hoa/types.py: the two conversions
\* the int values converted are 0 .. MaxValue
MaxValue == 40

\* a str handed to a conversion: a printed value or a token of a text
PyStr(s) == [py |-> "str", s |-> s]

\* the bool and int values a header or an acc-name parameter may hold
ConvertedValues == {PyBool(b) : b \in BOOLEAN} \cup {PyInt(i) : i \in 0..MaxValue}

\* the tokens t, f, foo, true, f1, tt, x1, _t
ConvertedTokens ==
  {PyStr(s) : s \in {<<"t">>, <<"f">>, <<"f", "o", "o">>, <<"t", "r", "u", "e">>,
                     <<"f", "1">>, <<"t", "t">>, <<"x", "1">>, <<"_", "t">>}}

InitTypes ==
  /\ alg \in {"hoa_header_value", "acceptance_parameter"}
  /\ x \in ConvertedValues \cup ConvertedTokens
  /\ pc = "idle"
  /\ call = NoCall
  /\ ParserIdle

\* hoa_header_value.to_header_value(hoa_header_value.to_hoa_header_value(x))
HeaderValueRoundTrip ==
  /\ pc = "idle"
  /\ alg = "hoa_header_value"
  /\ x.py \in {"bool", "int"}
  /\ Finish("header_value_round_trip", <<x>>,
            IF to_hoa_header_value(x).exc # "ok" THEN to_hoa_header_value(x)
            ELSE to_header_value(PyStr(to_hoa_header_value(x).val)))

\* acceptance_parameter.to_parameter_value(acceptance_parameter.to_acceptance_parameter(x))
ParameterRoundTrip ==
  /\ pc = "idle"
  /\ alg = "acceptance_parameter"
  /\ x.py \in {"bool", "int"}
  /\ Finish("parameter_round_trip", <<x>>,
            IF to_acceptance_parameter(x).exc # "ok" THEN to_acceptance_parameter(x)
            ELSE to_parameter_value(PyStr(to_acceptance_parameter(x).val)))

\* hoa_header_value.to_header_value(x) on a token
ToHeaderValue ==
  /\ pc = "idle"
  /\ alg = "hoa_header_value"
  /\ x.py = "str"
  /\ Finish("to_header_value", <<x>>, to_header_value(x))

\* acceptance_parameter.to_parameter_value(x) on a token
ToParameterValue ==
  /\ pc = "idle"
  /\ alg = "acceptance_parameter"
  /\ x.py = "str"
  /\ Finish("to_parameter_value", <<x>>, to_parameter_value(x))

NextTypes == HeaderValueRoundTrip \/ ParameterRoundTrip \/ ToHeaderValue \/ ToParameterValue

SpecTypes == InitTypes /\ [][NextTypes]_vars

\* C30: a bool or int value printed by to_hoa_header_value and converted by
\* to_header_value is equal to the value, likewise with
\* to_acceptance_parameter and to_parameter_value; the token 'f' converts to
\* False and 't' to True, and an identifier that only starts with 't' or
\* 'f' converts to that identifier, not to a bool.
C30_ConversionRoundTrip ==
  /\ call.op \in {"header_value_round_trip", "parameter_round_trip"}
       => (call.out.exc = "ok" /\ PyNorm(call.out.val) = PyNorm(call.args[1]))
  /\ (call.op \in {"to_header_value", "to_parameter_value"} /\ call.args[1].s = <<"t">>)
       => call.out = Return(PyBool(TRUE))
  /\ (call.op \in {"to_header_value", "to_parameter_value"} /\ call.args[1].s = <<"f">>)
       => call.out = Return(PyBool(FALSE))
  /\ (call.op \in {"to_header_value", "to_parameter_value"}
        /\ Len(call.args[1].s) > 1 /\ call.args[1].s[1] \in {"t", "f"})
       => call.out = Return(identifier(call.args[1].s))

\* C30, the values other than False and the tokens that do not start with
\* 't' or 'f': the round trip returns the value, the token its identifier.
C30_RoundTripOfTrueAndInts ==
  /\ (call.op \in {"header_value_round_trip", "parameter_round_trip"}
        /\ call.args[1] # PyBool(FALSE))
       => call.out = Return(call.args[1])
  /\ (call.op \in {"to_header_value", "to_parameter_value"}
        /\ call.args[1].s[1] \notin {"t", "f"})
       => call.out = Return(identifier(call.args[1].s))

====
